---- MODULE Spec2Model ----
(***************************************************************************)
(* Model of the scanning-and-caching core of aws-cost-analyzer:            *)
(*   - BaseScanner: the class-level result cache, the cache key builder    *)
(*     and the retry policy (src/scanners/base_scanner.py);                *)
(*   - the six resource scanners (src/scanners/*_scanner.py);              *)
(*   - MultiRegionScanner (src/scanners/multi_region_scanner.py);          *)
(*   - CostAnalyzer and CostExplorerAnalyzer (src/analyzers).              *)
(*                                                                         *)
(* Python strings are sequences of lexemes: a lexeme is a non-empty piece  *)
(* of text without ':' (written as a TLA+ string), and ":" is the colon    *)
(* character itself.  No two neighbouring elements are both colon-free, so *)
(* two such sequences are equal exactly when the Python strings are, and   *)
(* string concatenation is sequence concatenation.                         *)
(* Time is counted in whole minutes.                                       *)
(***************************************************************************)
EXTENDS Integers, Sequences, FiniteSets, TLC

VARIABLES
    \* ---- BaseScanner._cache and the clock (datetime.now()) ----
    cache,      \* BaseScanner._cache: cache_key -> [data, timestamp]
    now,        \* the wall clock, in minutes
    ops,        \* log of the cache operations performed (SpecCache)
    \* ---- one _retry_aws_call in progress (SpecRetry) ----
    retry,      \* the loop state of _retry_aws_call
    rMax,       \* its max_retries argument
    rDelay,     \* its delay argument
    \* ---- _build_cache_key applied to two requests (SpecKey) ----
    reqA, reqB, \* the two scan requests
    keyA, keyB, \* the keys built for them
    \* ---- one scanner object and the calls made on it (SpecScan) ----
    scanner,    \* the scanner constructed: [kind, region, params]
    listing,    \* the backing store: the raw items the list call returns
    lastCall,   \* the last scan call made: arguments, remote calls, outcome
    \* ---- MultiRegionScanner.scan_all_regions (SpecRegions) ----
    maxWorkers, \* the max_workers argument
    task,       \* region -> state of the future of that region
    results,    \* the results dict being filled
    mpc,        \* position of the calling thread in scan_all_regions
    \* ---- threads sharing BaseScanner._cache (SpecThreads) ----
    lock,       \* BaseScanner._cache_lock: NoThread or the thread holding it
    thr,        \* thread -> the cache operation it is in and its locals
    \* ---- SnapshotScanner._check_volume_exists (SpecVolume) ----
    volumeId,   \* the volume_id argument
    exists,     \* the call: in progress, or what it returned or raised
    \* ---- CostAnalyzer.calculate_total_waste (SpecBilling) ----
    scanResults, \* the scan_results argument
    billing,     \* the billing API: the bill and what each invocation does
    report       \* the report returned

vars == <<cache, now, ops, retry, rMax, rDelay, reqA, reqB, keyA, keyB,
          scanner, listing, lastCall, maxWorkers, task, results, mpc,
          lock, thr, volumeId, exists, scanResults, billing, report>>

cacheVars   == <<cache, now, ops>>
retryVars   == <<retry, rMax, rDelay>>
keyVars     == <<reqA, reqB, keyA, keyB>>
scanVars    == <<scanner, listing, lastCall>>
regionVars  == <<maxWorkers, task, results, mpc>>
threadVars  == <<lock, thr>>
volumeVars  == <<volumeId, exists>>
billingVars == <<scanResults, billing, report>>

(***************************************************************************)
(* Bounds of the model.                                                    *)
(***************************************************************************)
MaxTime         == 6    \* the clock runs from 0 to MaxTime minutes
MaxOps          == 3    \* cache operations logged in one run of SpecCache
MaxRetriesBound == 3    \* max_retries ranges over 1..MaxRetriesBound
MaxDelay        == 2    \* delay ranges over 1..MaxDelay seconds
MaxParams       == 2    \* extra parameters of one scan request
NumRegions      == 3    \* regions of REGIONS scanned in SpecRegions
MaxWorkersBound == 2    \* max_workers ranges over 1..MaxWorkersBound
NumThreads      == 2    \* threads sharing the cache in SpecThreads
MaxThreadOps    == 2    \* cache methods one thread calls in SpecThreads
MaxUsers        == 2    \* IAM users of an account in SpecIam
MaxKeys         == 2    \* access keys of one IAM user in SpecIam
MaxBuckets      == 2    \* buckets of an account in SpecS3
MaxAge          == 40   \* ages of 0..MaxAge days in SpecTiers
MaxSnapshots    == 2    \* snapshots of an account in SpecSnapshots
MaxVolumes      == 3    \* block device mappings of an instance in SpecEbsCost

(***************************************************************************)
(* Python values.                                                          *)
(***************************************************************************)
\* Optional[Any]: None, or a value
None    == [present |-> FALSE, data |-> <<>>]
Some(x) == [present |-> TRUE, data |-> x]

\* a Python int or str, with its decimal/text form as a string
PyInt(s) == [t |-> "int", s |-> s]
PyStr(s) == [t |-> "str", s |-> s]

\* str(value)
Str(v) == v.s

\* ':'.join(parts)
RECURSIVE Join(_)
Join(parts) ==
    IF Len(parts) = 0 THEN <<>>
    ELSE IF Len(parts) = 1 THEN parts[1]
    ELSE parts[1] \o <<":">> \o Join(Tail(parts))

\* Code point order of the parameter names used (single lexemes).
NameOrder == <<"age_threshold", "param_a", "param_b", "threshold">>

NameRank(n) == CHOOSE i \in 1..Len(NameOrder) : NameOrder[i] = n

\* insertion of one (name, value) item into a list sorted by name
RECURSIVE InsertSorted(_, _)
InsertSorted(item, sorted) ==
    IF sorted = <<>> THEN <<item>>
    ELSE IF NameRank(item.name) < NameRank(Head(sorted).name)
         THEN <<item>> \o sorted
         ELSE <<Head(sorted)>> \o InsertSorted(item, Tail(sorted))

\* the items left in the order supplied (the sort dropped)
UnsortedItems(kwargs) == kwargs

\* sorted(kwargs.items()): kwargs is the list of items in the order supplied
RECURSIVE SortedItems(_)
SortedItems(kwargs) ==
    IF kwargs = <<>> THEN <<>>
    ELSE InsertSorted(Head(kwargs), SortedItems(Tail(kwargs)))

\* the key parts appended for the sorted parameters
RECURSIVE ParamParts(_)
ParamParts(items) ==
    IF items = <<>> THEN <<>>
    ELSE <<<<Head(items).name>>, Str(Head(items).value)>> \o ParamParts(Tail(items))

\* BaseScanner._build_cache_key(resource_type, **kwargs) of a scanner of `region`
BuildCacheKey(region, resource_type, kwargs) ==
    Join(<<region, resource_type>> \o ParamParts(SortedItems(kwargs)))

(***************************************************************************)
(* The result cache: BaseScanner._cache, _cache_lock, _cache_ttl.          *)
(* Every operation holds _cache_lock for its whole body, so each is one    *)
(* atomic step: it maps the cache (and the clock) to the new cache and the *)
(* value returned.                                                         *)
(***************************************************************************)
\* _cache_ttl = timedelta(minutes=5)
CacheTtl == 5

EmptyCache == [k \in {} |-> [data |-> <<>>, timestamp |-> 0]]

CachePut(c, k, e) == [x \in (DOMAIN c) \cup {k} |-> IF x = k THEN e ELSE c[x]]
CacheDel(c, k)    == [x \in (DOMAIN c) \ {k} |-> c[x]]

\* the expiry test with <= in place of <
FreshInclusive(age) == age <= CacheTtl

\* age < self._cache_ttl
Fresh(age) == age < CacheTtl

\* BaseScanner._get_cached(cache_key) at time t
GetCached(c, cache_key, t) ==
    IF cache_key \in DOMAIN c
    THEN LET data      == c[cache_key].data
             timestamp == c[cache_key].timestamp
             age       == t - timestamp
         IN  IF Fresh(age)
             THEN [ret |-> Some(data), cache |-> c]
             ELSE [ret |-> None, cache |-> CacheDel(c, cache_key)]
    ELSE [ret |-> None, cache |-> c]

\* _set_cache that keeps an entry already present
SetCacheKeepOld(c, cache_key, data, t) ==
    IF cache_key \in DOMAIN c THEN c
    ELSE CachePut(c, cache_key, [data |-> data, timestamp |-> t])

\* _set_cache that replaces the payload of an entry and keeps its timestamp
SetCacheKeepTime(c, cache_key, data, t) ==
    CachePut(c, cache_key,
             [data |-> data,
              timestamp |-> IF cache_key \in DOMAIN c THEN c[cache_key].timestamp
                            ELSE t])

\* BaseScanner._set_cache(cache_key, data) at time t
SetCache(c, cache_key, data, t) ==
    CachePut(c, cache_key, [data |-> data, timestamp |-> t])

\* _clear_cache that empties the cache whatever the key
ClearCacheAll(c, key) == EmptyCache

\* BaseScanner._clear_cache(cache_key): key is None for "clear all"
ClearCache(c, key) ==
    IF key.present THEN CacheDel(c, key.data) ELSE EmptyCache

(***************************************************************************)
(* The retry policy: BaseScanner._retry_aws_call(func, max_retries, delay). *)
(* func is known by what its successive invocations do: "ok" (it returns),  *)
(* "Exception" (it raises something that is no ClientError), or the error   *)
(* code of the ClientError it raises.                                       *)
(***************************************************************************)
\* max_retries: int = 3, delay: float = 1.0
DefaultMaxRetries == 3
DefaultDelay      == 1

RetryableErrors == {"Throttling", "ServiceUnavailable", "RequestLimitExceeded"}
PermanentErrors == {"AccessDenied", "InvalidVolume.NotFound"}
ClientErrorCodes == RetryableErrors \cup PermanentErrors
Outcomes == {"ok", "Exception"} \cup ClientErrorCodes

\* a backoff factor that does not grow
Pow2Const(n) == 1

RECURSIVE Pow2(_)
Pow2(n) == IF n = 0 THEN 1 ELSE 2 * Pow2(n - 1)

\* the state at the top of the loop, before the first attempt
RetryStart ==
    [attempt |-> 0, outs |-> <<>>, sleeps |-> <<>>, last_exception |-> "none",
     status |-> "loop", value |-> "none"]

\* the retry test without the allow-list of transient codes
ShouldRetryAny(error_code, attempt, max_retries) ==
    attempt < max_retries - 1

\* the retry test that gives up one attempt early
ShouldRetryEarly(error_code, attempt, max_retries) ==
    error_code \in RetryableErrors /\ attempt < max_retries - 2

\* error_code in retryable_errors and attempt < max_retries - 1
ShouldRetry(error_code, attempt, max_retries) ==
    error_code \in RetryableErrors /\ attempt < max_retries - 1

\* one iteration of the loop body, in which func() does `out`
RetryStep(st, out, max_retries, delay) ==
    LET st1 == [st EXCEPT !.outs = Append(@, out)]
    IN  IF out = "ok"
        THEN [st1 EXCEPT !.status = "returned", !.value = "ok"]
        ELSE IF out \in ClientErrorCodes
        THEN IF ShouldRetry(out, st.attempt, max_retries)
             THEN [st1 EXCEPT !.last_exception = out,
                              !.sleeps = Append(@, delay * Pow2(st.attempt)),
                              !.attempt = @ + 1]
             ELSE [st1 EXCEPT !.last_exception = out,
                              !.status = "raised", !.value = out]
        ELSE [st1 EXCEPT !.status = "raised", !.value = "Exception"]

\* the code after the loop, reached when range(max_retries) is used up
RetryExhausted(st) ==
    [st EXCEPT !.status = "raised",
               !.value = IF st.last_exception # "none" THEN st.last_exception
                         ELSE "RuntimeError"]

\* _retry_aws_call(func): script[i] is what the i-th invocation of func does
RECURSIVE RetryLoop(_, _, _, _)
RetryLoop(st, script, max_retries, delay) ==
    IF st.status # "loop" THEN st
    ELSE IF st.attempt >= max_retries THEN RetryExhausted(st)
    ELSE RetryLoop(RetryStep(st, script[Len(st.outs) + 1], max_retries, delay),
                   script, max_retries, delay)

RetryAwsCall(script) == RetryLoop(RetryStart, script, DefaultMaxRetries, DefaultDelay)

(***************************************************************************)
(* The resource scanners.  A scan method is one operator: from the cache,  *)
(* the time, the raw items the list call would return (`items`) and what   *)
(* the successive invocations of the list call do (`script`), it gives the *)
(* list returned (`ret`), the exception that leaves the method (`raised`), *)
(* the new cache, the invocations of the list call made (`outs`), whether  *)
(* the cached payload was returned (`hit`) and whether the method's own    *)
(* `except ClientError` handler produced the result (`soft`).              *)
(* An item carries its age in whole days and, for every secondary lookup   *)
(* made for it, what that lookup does each time it is invoked.             *)
(***************************************************************************)
ScanResult(ret, raised, c, outs, hit, soft) ==
    [ret |-> ret, raised |-> raised, cache |-> c, outs |-> outs, hit |-> hit,
     soft |-> soft]

\* a handler that lets the ClientError through
CatchesNothing(exc) == FALSE

\* a bare `except`: the handler catches whatever is raised
CatchesEverything(exc) == TRUE

\* `except ClientError`: the handler catches ClientError and nothing else
CatchesClientError(exc) == exc \in ClientErrorCodes

\* a lookup that does `out` on every invocation, under the retry policy
Lookup(out) ==
    RetryLoop(RetryStart, [i \in 1..DefaultMaxRetries |-> out],
              DefaultMaxRetries, DefaultDelay)

\* what a loop over items gives: the list built, or the exception that ended it
Kept(x)    == [status |-> "keep", value |-> x, exc |-> "none"]
Dropped    == [status |-> "drop", value |-> <<>>, exc |-> "none"]
Raises(e)  == [status |-> "raise", value |-> <<>>, exc |-> e]

\* ---- EC2Scanner ----
\* EC2Scanner._generate_recommendation
EC2Recommendation(age_days) ==
    IF age_days > 30 THEN "TERMINATE"
    ELSE IF age_days > 7 THEN "REVIEW"
    ELSE "MONITOR"

\* one price for every volume type
PricePerGbFlat(volume_type) == 10

\* the price_per_gb of EC2Scanner._calculate_ebs_cost, in cents
PricePerGb(volume_type) == IF volume_type = "gp3" THEN 8 ELSE 10

\* instance.get('BlockDeviceMappings', [])
BlockDeviceMappings(instance) ==
    IF "BlockDeviceMappings" \in DOMAIN instance
    THEN instance.BlockDeviceMappings ELSE <<>>

\* the loop of EC2Scanner._calculate_ebs_cost over the mappings from place i
\* on, with total_cost so far: a mapping without 'Ebs' is passed over, a
\* volume whose load raises ClientError is passed over by `continue`, any
\* other exception leaves the method
RECURSIVE EbsCostFrom(_, _, _)
EbsCostFrom(mappings, i, total_cost) ==
    IF i > Len(mappings) THEN Kept(total_cost)
    ELSE LET bdm == mappings[i]
         IN  IF ~bdm.Ebs THEN EbsCostFrom(mappings, i + 1, total_cost)
             ELSE IF bdm.load = "ok"
             THEN EbsCostFrom(mappings, i + 1,
                              total_cost + PricePerGb(bdm.volume_type) * bdm.size)
             ELSE IF CatchesClientError(bdm.load)
             THEN EbsCostFrom(mappings, i + 1, total_cost)
             ELSE Raises(bdm.load)

\* EC2Scanner._calculate_ebs_cost: round(total_cost, 2), counted in cents
CalculateEbsCost(instance) == EbsCostFrom(BlockDeviceMappings(instance), 1, 0)

\* EC2Scanner._process_stopped_instance
ProcessStoppedInstance(instance) ==
    LET ebs_cost == CalculateEbsCost(instance)
    IN  IF ebs_cost.status = "raise" THEN ebs_cost
        ELSE Kept([instance_id |-> instance.InstanceId,
                   age_days |-> instance.age_days,
                   ebs_monthly_cost |-> ebs_cost.value,
                   recommendation |-> EC2Recommendation(instance.age_days)])

\* ---- EBSScanner ----
\* EBSScanner._generate_recommendation
EBSRecommendation(age_days) ==
    IF age_days > 30 THEN "DELETE"
    ELSE IF age_days > 7 THEN "REVIEW"
    ELSE "MONITOR"

\* the loop body of scan_unattached_volumes with _process_unattached_volume
ProcessUnattachedVolume(volume) ==
    IF volume.State = "available"
    THEN Kept([volume_id |-> volume.VolumeId,
               age_days |-> volume.age_days,
               recommendation |-> EBSRecommendation(volume.age_days)])
    ELSE Dropped

\* ---- SnapshotScanner ----
\* _check_volume_exists has been called and has not returned
NoCheck == [status |-> "called", raised |-> "none", value |-> FALSE]

\* a check that takes any ClientError of the lookup for "not found"
VolumeExistsAnyError(r) ==
    IF r.status = "returned"
    THEN [status |-> "done", raised |-> "none", value |-> TRUE]
    ELSE IF r.value \in ClientErrorCodes
    THEN [status |-> "done", raised |-> "none", value |-> FALSE]
    ELSE [status |-> "done", raised |-> r.value, value |-> FALSE]

\* _check_volume_exists once _retry_aws_call ended in r: `return True`, or
\* the except clause: False for InvalidVolume.NotFound, else re-raise
VolumeExistsFrom(r) ==
    IF r.status = "returned"
    THEN [status |-> "done", raised |-> "none", value |-> TRUE]
    ELSE IF r.value = "InvalidVolume.NotFound"
    THEN [status |-> "done", raised |-> "none", value |-> FALSE]
    ELSE [status |-> "done", raised |-> r.value, value |-> FALSE]

\* SnapshotScanner._check_volume_exists: [raised, value]
CheckVolumeExists(volume_id, lookup) ==
    IF volume_id = "unknown"
    THEN [status |-> "done", raised |-> "none", value |-> FALSE]
    ELSE VolumeExistsFrom(Lookup(lookup))

\* a recommendation that takes 180 days for very old already
SnapshotRecommendationFrom180(age_days, volume_exists) ==
    IF age_days >= 180 /\ ~volume_exists THEN "DELETE - Orphaned"
    ELSE IF age_days >= 180 THEN "REVIEW"
    ELSE "MONITOR"

\* SnapshotScanner._generate_recommendation
SnapshotRecommendation(age_days, volume_exists) ==
    IF age_days > 180 /\ ~volume_exists THEN "DELETE - Orphaned"
    ELSE IF age_days > 180 THEN "REVIEW"
    ELSE "MONITOR"

\* SnapshotScanner._process_snapshots
ProcessSnapshots(snapshot, age_threshold_days) ==
    IF snapshot.age_days < age_threshold_days THEN Dropped
    ELSE LET e == CheckVolumeExists(snapshot.VolumeId, snapshot.lookup)
         IN  IF e.raised # "none" THEN Raises(e.raised)
             ELSE Kept([snapshot_id |-> snapshot.SnapshotId,
                        volume_id |-> snapshot.VolumeId,
                        age_days |-> snapshot.age_days,
                        volume_exists |-> e.value,
                        recommendation |->
                            SnapshotRecommendation(snapshot.age_days, e.value)])

\* ---- EIPScanner ----
\* the loop body of scan_unassociated_eips with _process_unassociated_eip
ProcessUnassociatedEip(address) ==
    IF ~address.AssociationId.present
    THEN Kept([allocation_id |-> address.AllocationId,
               recommendation |-> "RELEASE"])
    ELSE Dropped

\* ---- S3Scanner ----
\* S3Scanner._generate_recommendation
S3Recommendation(is_empty, age_days) ==
    IF is_empty /\ age_days > 30 THEN "DELETE"
    ELSE IF age_days > 180 THEN "REVIEW"
    ELSE "MONITOR"

\* the loop body of scan_unused_buckets: bucket.probe is what list_objects_v2
\* does, bucket.has_contents whether its answer holds an object
ProcessBucket(bucket) ==
    LET r == Lookup(bucket.probe)
    IN  IF r.status = "raised" /\ ~CatchesClientError(r.value) THEN Raises(r.value)
        ELSE LET is_empty == IF r.status = "raised" THEN FALSE
                             ELSE ~bucket.has_contents
             IN  IF is_empty \/ bucket.age_days > 90
                 THEN Kept([bucket_name |-> bucket.Name,
                            age_days |-> bucket.age_days,
                            is_empty |-> is_empty,
                            recommendation |->
                                S3Recommendation(is_empty, bucket.age_days)])
                 ELSE Dropped

\* ---- IAMScanner ----
\* the body of the loop over the keys of one user: key.last_used is what
\* get_access_key_last_used does, key.last_used_days the days since the last
\* use (None when never used), key.create_days the days since creation
ProcessAccessKey(username, key, days_threshold) ==
    LET r == Lookup(key.last_used)
    IN  IF r.status = "raised"
        THEN IF CatchesClientError(r.value) THEN Dropped ELSE Raises(r.value)
        ELSE LET days_unused == IF key.last_used_days.present
                                THEN key.last_used_days.data
                                ELSE key.create_days
             IN  IF days_unused >= days_threshold
                 THEN Kept([username |-> username,
                            access_key_id |-> key.AccessKeyId,
                            days_unused |-> days_unused,
                            recommendation |-> "DELETE"])
                 ELSE Dropped

\* a loop whose body passes over an item that raises, as after `continue`
RECURSIVE CollectFromSkipping(_, _, _)
CollectFromSkipping(res, i, acc) ==
    IF i > Len(res) THEN [raised |-> "none", out |-> acc]
    ELSE CollectFromSkipping(res, i + 1,
                             IF res[i].status = "keep" THEN Append(acc, res[i].value)
                             ELSE acc)

RECURSIVE CollectFrom(_, _, _)
CollectFrom(res, i, acc) ==
    IF i > Len(res) THEN [raised |-> "none", out |-> acc]
    ELSE IF res[i].status = "raise" THEN [raised |-> res[i].exc, out |-> acc]
    ELSE CollectFrom(res, i + 1,
                     IF res[i].status = "keep" THEN Append(acc, res[i].value)
                     ELSE acc)

\* a `for` loop over items whose body did res[i] for item i: it appends what
\* is kept and ends at the first exception
Collect(res) == CollectFrom(res, 1, <<>>)

\* the loop body without its try/except: a failed list_access_keys leaves
\* the loop over users
ProcessUserUnguarded(user, days_threshold) ==
    LET r == Lookup(user.list_keys)
    IN  IF r.status = "raised" THEN [raised |-> r.value, out |-> <<>>]
        ELSE Collect([i \in 1..Len(user.keys) |->
                        ProcessAccessKey(user.UserName, user.keys[i], days_threshold)])

\* the body of the loop over users of scan_unused_access_keys
ProcessUser(user, days_threshold) ==
    LET r == Lookup(user.list_keys)
    IN  IF r.status = "raised"
        THEN IF CatchesClientError(r.value) THEN [raised |-> "none", out |-> <<>>]
             ELSE [raised |-> r.value, out |-> <<>>]
        ELSE Collect([i \in 1..Len(user.keys) |->
                        ProcessAccessKey(user.UserName, user.keys[i], days_threshold)])

\* the loop over users: unused_keys grows until a user's body raises
RECURSIVE ProcessUsers(_, _, _, _)
ProcessUsers(users, i, acc, days_threshold) ==
    IF i > Len(users) THEN [raised |-> "none", out |-> acc]
    ELSE LET u == ProcessUser(users[i], days_threshold)
         IN  IF u.raised # "none" THEN [raised |-> u.raised, out |-> acc \o u.out]
             ELSE ProcessUsers(users, i + 1, acc \o u.out, days_threshold)

\* a cache lookup made whatever use_cache says
LookUpAlways(c, cache_key, use_cache, t) == GetCached(c, cache_key, t)

\* ---- the shape shared by the scan methods ----
\* `if use_cache: cached = self._get_cached(cache_key)`
LookUp(c, cache_key, use_cache, t) ==
    IF use_cache THEN GetCached(c, cache_key, t) ELSE [ret |-> None, cache |-> c]

\* an exception raised inside the try block of a scan method:
\* `except ClientError as e: self.handle_client_error(...); return []`
Failed(exc, c, outs) ==
    IF CatchesClientError(exc)
    THEN ScanResult(<<>>, "none", c, outs, FALSE, TRUE)
    ELSE ScanResult(<<>>, exc, c, outs, FALSE, FALSE)

\* the end of the try block once the items were processed (p):
\* `if use_cache: self._set_cache(cache_key, result)`, `return result`
Finish(p, c, cache_key, use_cache, t, outs) ==
    IF p.raised # "none" THEN Failed(p.raised, c, outs)
    ELSE ScanResult(p.out, "none",
                    IF use_cache THEN SetCache(c, cache_key, p.out, t) ELSE c,
                    outs, FALSE, FALSE)

\* str(n) of a Python int
IntValue(n) == PyInt(<<ToString(n)>>)

\* EC2Scanner.scan_stopped_instances(use_cache): the paginator is iterated
\* directly, the list call is invoked once
ScanStoppedInstances(c, t, region, items, use_cache, script) ==
    LET cache_key == BuildCacheKey(region, <<"stopped_instances">>, <<>>)
        look      == LookUp(c, cache_key, use_cache, t)
    IN  IF look.ret.present
        THEN ScanResult(look.ret.data, "none", look.cache, <<>>, TRUE, FALSE)
        ELSE LET out == script[1]
             IN  IF out # "ok" THEN Failed(out, look.cache, <<out>>)
                 ELSE Finish(Collect([i \in 1..Len(items) |->
                                        ProcessStoppedInstance(items[i])]),
                             look.cache, cache_key, use_cache, t, <<out>>)

\* a volume scan whose except clause caches the empty list it returns
ScanUnattachedVolumesCachingFailure(c, t, region, items, use_cache, script) ==
    LET cache_key == BuildCacheKey(region, <<"unattached_volumes">>, <<>>)
        look      == LookUp(c, cache_key, use_cache, t)
    IN  IF look.ret.present
        THEN ScanResult(look.ret.data, "none", look.cache, <<>>, TRUE, FALSE)
        ELSE LET pages == RetryAwsCall(script)
             IN  IF pages.status = "raised"
                 THEN Failed(pages.value,
                             IF use_cache THEN SetCache(look.cache, cache_key, <<>>, t)
                             ELSE look.cache,
                             pages.outs)
                 ELSE Finish(Collect([i \in 1..Len(items) |->
                                        ProcessUnattachedVolume(items[i])]),
                             look.cache, cache_key, use_cache, t, pages.outs)

\* EBSScanner.scan_unattached_volumes(use_cache)
ScanUnattachedVolumes(c, t, region, items, use_cache, script) ==
    LET cache_key == BuildCacheKey(region, <<"unattached_volumes">>, <<>>)
        look      == LookUp(c, cache_key, use_cache, t)
    IN  IF look.ret.present
        THEN ScanResult(look.ret.data, "none", look.cache, <<>>, TRUE, FALSE)
        ELSE LET pages == RetryAwsCall(script)
             IN  IF pages.status = "raised"
                 THEN Failed(pages.value, look.cache, pages.outs)
                 ELSE Finish(Collect([i \in 1..Len(items) |->
                                        ProcessUnattachedVolume(items[i])]),
                             look.cache, cache_key, use_cache, t, pages.outs)

\* SnapshotScanner.scan_old_snapshots(age_threshold_days, use_cache)
ScanOldSnapshots(c, t, region, items, age_threshold_days, use_cache, script) ==
    LET cache_key == BuildCacheKey(region, <<"old_snapshots">>,
                        <<[name |-> "age_threshold",
                           value |-> IntValue(age_threshold_days)]>>)
        look      == LookUp(c, cache_key, use_cache, t)
    IN  IF look.ret.present
        THEN ScanResult(look.ret.data, "none", look.cache, <<>>, TRUE, FALSE)
        ELSE LET pages == RetryAwsCall(script)
             IN  IF pages.status = "raised"
                 THEN Failed(pages.value, look.cache, pages.outs)
                 ELSE Finish(Collect([i \in 1..Len(items) |->
                                        ProcessSnapshots(items[i], age_threshold_days)]),
                             look.cache, cache_key, use_cache, t, pages.outs)

\* EIPScanner.scan_unassociated_eips(): no cache, no retry
ScanUnassociatedEips(c, t, region, items, script) ==
    LET out == script[1]
    IN  IF out # "ok" THEN Failed(out, c, <<out>>)
        ELSE LET p == Collect([i \in 1..Len(items) |->
                                 ProcessUnassociatedEip(items[i])])
             IN  IF p.raised # "none" THEN Failed(p.raised, c, <<out>>)
                 ELSE ScanResult(p.out, "none", c, <<out>>, FALSE, FALSE)

\* S3Scanner.scan_unused_buckets(use_cache): S3Scanner is built for us-east-1
ScanUnusedBuckets(c, t, region, items, use_cache, script) ==
    LET cache_key == BuildCacheKey(region, <<"unused_buckets">>, <<>>)
        look      == LookUp(c, cache_key, use_cache, t)
    IN  IF look.ret.present
        THEN ScanResult(look.ret.data, "none", look.cache, <<>>, TRUE, FALSE)
        ELSE LET response == RetryAwsCall(script)
             IN  IF response.status = "raised"
                 THEN Failed(response.value, look.cache, response.outs)
                 ELSE Finish(Collect([i \in 1..Len(items) |-> ProcessBucket(items[i])]),
                             look.cache, cache_key, use_cache, t, response.outs)

\* IAMScanner.scan_unused_access_keys(days_threshold, use_cache)
ScanUnusedAccessKeys(c, t, region, items, days_threshold, use_cache, script) ==
    LET cache_key == BuildCacheKey(region, <<"unused_access_keys">>,
                        <<[name |-> "threshold", value |-> IntValue(days_threshold)]>>)
        look      == LookUp(c, cache_key, use_cache, t)
    IN  IF look.ret.present
        THEN ScanResult(look.ret.data, "none", look.cache, <<>>, TRUE, FALSE)
        ELSE LET pages == RetryAwsCall(script)
             IN  IF pages.status = "raised"
                 THEN Failed(pages.value, look.cache, pages.outs)
                 ELSE Finish(ProcessUsers(items, 1, <<>>, days_threshold),
                             look.cache, cache_key, use_cache, t, pages.outs)

(***************************************************************************)
(* Values the variables of a part of the model hold while another part is  *)
(* being explored.                                                         *)
(***************************************************************************)
(* CostExplorerAnalyzer and CostAnalyzer (src/analyzers).  Amounts are     *)
(* counted in whole cents, percentages in tenths of a percent.             *)
(***************************************************************************)
\* CostExplorerAnalyzer.get_monthly_cost_by_service when get_cost_and_usage
\* does `out` and the bill is service_costs (service name -> cost):
\* `except ClientError` returns {}, another exception leaves the method
GetMonthlyCostByService(out, service_costs) ==
    IF out = "ok" THEN Kept(service_costs)
    ELSE IF CatchesClientError(out) THEN Kept(<<>>)
    ELSE Raises(out)

\* sum(f[x] for x in S) of a dict f over the keys S
RECURSIVE SumOver(_, _)
SumOver(f, S) ==
    IF S = {} THEN 0
    ELSE LET x == CHOOSE y \in S : TRUE IN f[x] + SumOver(f, S \ {x})

\* any(keyword in service_name for keyword in ebs_keywords), on the service
\* names of the bills enumerated
HasEbsKeyword(service_name) ==
    service_name \in {"EC2 - Other", "Amazon Elastic Block Store"}

\* CostExplorerAnalyzer.get_ec2_actual_cost
GetEc2ActualCost(out, service_costs) ==
    LET r == GetMonthlyCostByService(out, service_costs)
    IN  IF r.status = "raise" THEN r
        ELSE Kept(IF "Amazon Elastic Compute Cloud - Compute" \in DOMAIN r.value
                  THEN r.value["Amazon Elastic Compute Cloud - Compute"] ELSE 0)

\* CostExplorerAnalyzer.get_ebs_actual_cost
GetEbsActualCost(out, service_costs) ==
    LET r == GetMonthlyCostByService(out, service_costs)
    IN  IF r.status = "raise" THEN r
        ELSE Kept(SumOver(r.value, {n \in DOMAIN r.value : HasEbsKeyword(n)}))

\* CostExplorerAnalyzer.get_total_monthly_cost
GetTotalMonthlyCost(out, service_costs) ==
    LET r == GetMonthlyCostByService(out, service_costs)
    IN  IF r.status = "raise" THEN r
        ELSE Kept(SumOver(r.value, DOMAIN r.value))

\* scan_results.get(kind, [])
ResultsOf(scan_results, kind) ==
    IF kind \in DOMAIN scan_results THEN scan_results[kind] ELSE <<>>

\* sum(i.get(field, 0) for i in scan_results.get(kind, []))
RECURSIVE WasteFrom(_, _, _)
WasteFrom(items, field, n) ==
    IF n = 0 THEN 0
    ELSE WasteFrom(items, field, n - 1)
         + (IF field \in DOMAIN items[n] THEN items[n][field] ELSE 0)

Waste(scan_results, kind, field) ==
    LET items == ResultsOf(scan_results, kind)
    IN  WasteFrom(items, field, Len(items))

\* the actual costs of calculate_total_waste: the three getters in turn
\* inside `try`, outs[i] being what the i-th get_cost_and_usage does;
\* `except Exception` replaces all three by 0
ActualCosts(outs, service_costs) ==
    LET ec2   == GetEc2ActualCost(outs[1], service_costs)
        ebs   == GetEbsActualCost(outs[2], service_costs)
        total == GetTotalMonthlyCost(outs[3], service_costs)
    IN  IF ec2.status = "raise"
        THEN [ec2_monthly |-> 0, ebs_monthly |-> 0, total_monthly |-> 0, calls |-> 1]
        ELSE IF ebs.status = "raise"
        THEN [ec2_monthly |-> 0, ebs_monthly |-> 0, total_monthly |-> 0, calls |-> 2]
        ELSE IF total.status = "raise"
        THEN [ec2_monthly |-> 0, ebs_monthly |-> 0, total_monthly |-> 0, calls |-> 3]
        ELSE [ec2_monthly |-> ec2.value, ebs_monthly |-> ebs.value,
              total_monthly |-> total.value, calls |-> 3]

\* round(x / y * 100, 1) in tenths of a percent, to the nearest
PercentageOfBill(total_estimated_waste, total_monthly_cost) ==
    IF total_monthly_cost > 0
    THEN (2 * 1000 * total_estimated_waste + total_monthly_cost)
           \div (2 * total_monthly_cost)
    ELSE 0

\* CostAnalyzer.calculate_total_waste(scan_results); `calls` is the number of
\* get_cost_and_usage invocations it made
CalculateTotalWaste(scan_results, outs, service_costs) ==
    LET ec2_waste      == Waste(scan_results, "stopped_instances", "ebs_monthly_cost")
        ebs_waste      == Waste(scan_results, "unattached_volumes", "monthly_cost")
        snapshot_waste == Waste(scan_results, "old_snapshots", "monthly_cost")
        eip_waste      == Waste(scan_results, "unassociated_eips", "monthly_cost")
        total_estimated_waste == ec2_waste + ebs_waste + snapshot_waste + eip_waste
        actual         == ActualCosts(outs, service_costs)
    IN  [made |-> TRUE, raised |-> "none", calls |-> actual.calls,
         estimated_waste |->
            [stopped_ec2 |-> ec2_waste, unattached_ebs |-> ebs_waste,
             old_snapshots |-> snapshot_waste, unassociated_eips |-> eip_waste,
             total |-> total_estimated_waste],
         actual_costs |->
            [ec2_monthly |-> actual.ec2_monthly, ebs_monthly |-> actual.ebs_monthly,
             total_monthly |-> actual.total_monthly],
         savings_potential |->
            [monthly |-> total_estimated_waste,
             annual |-> total_estimated_waste * 12,
             percentage_of_bill |->
                PercentageOfBill(total_estimated_waste, actual.total_monthly)],
         resource_counts |->
            [stopped_instances |-> Len(ResultsOf(scan_results, "stopped_instances")),
             unattached_volumes |-> Len(ResultsOf(scan_results, "unattached_volumes")),
             old_snapshots |-> Len(ResultsOf(scan_results, "old_snapshots")),
             unassociated_eips |-> Len(ResultsOf(scan_results, "unassociated_eips"))]]

(***************************************************************************)
NoRequest == [region |-> <<>>, kind |-> <<>>, kwargs |-> <<>>]
NoScanner == [kind |-> "none", region |-> <<>>, threshold |-> 0]
NoCall ==
    [made |-> FALSE, use_cache |-> FALSE, time |-> 0, outs |-> <<>>, hit |-> FALSE,
     soft |-> FALSE, ret |-> <<>>, raised |-> "none", pre |-> EmptyCache,
     post |-> EmptyCache]

CacheIdle  == cache = EmptyCache /\ now = 0 /\ ops = <<>>
RetryIdle  == retry = RetryStart /\ rMax = DefaultMaxRetries /\ rDelay = DefaultDelay
KeyIdle    == reqA = NoRequest /\ reqB = NoRequest /\ keyA = None /\ keyB = None
ScanIdle   == scanner = NoScanner /\ listing = <<>> /\ lastCall = NoCall
RegionIdle == maxWorkers = 0 /\ task = <<>> /\ results = <<>> /\ mpc = "idle"
ThreadIdle == lock = 0 /\ thr = <<>>
VolumeIdle == volumeId = "none" /\ exists = NoCheck
NoReport == [made |-> FALSE]
BillingIdle == scanResults = <<>> /\ billing = <<>> /\ report = NoReport

(***************************************************************************)
(* SpecKey: _build_cache_key applied to two scan requests.                 *)
(***************************************************************************)
KeyRegions == {<<"eu-west-1">>, <<"us-east-1">>}
KeyKinds   == {<<"resources">>, <<"resources", ":", "param_a", ":", "1">>}
ParamNames == {"param_a", "param_b"}
ParamValues ==
    {PyInt(<<"1">>), PyInt(<<"2">>), PyStr(<<"1">>),
     PyStr(<<"1", ":", "param_b", ":", "2">>)}
ParamItems == [name : ParamNames, value : ParamValues]

\* keyword arguments in the order supplied: no name occurs twice
KwargsLists ==
    {kw \in UNION {[1..n -> ParamItems] : n \in 0..MaxParams} :
        \A i, j \in 1..Len(kw) : kw[i].name = kw[j].name => i = j}

Requests == [region : KeyRegions, kind : KeyKinds, kwargs : KwargsLists]

ItemSet(kwargs) == {kwargs[i] : i \in 1..Len(kwargs)}

\* the same region, resource kind and set of (name, value) pairs
SameRequest(a, b) ==
    a.region = b.region /\ a.kind = b.kind /\ ItemSet(a.kwargs) = ItemSet(b.kwargs)

KeyOf(req) == BuildCacheKey(req.region, req.kind, req.kwargs)

InitKey ==
    /\ reqA \in Requests /\ reqB \in Requests
    /\ keyA = None /\ keyB = None
    /\ CacheIdle /\ RetryIdle /\ ScanIdle /\ RegionIdle /\ ThreadIdle /\ VolumeIdle
    /\ BillingIdle

BuildKeys ==
    /\ ~keyA.present
    /\ keyA' = Some(KeyOf(reqA))
    /\ keyB' = Some(KeyOf(reqB))
    /\ UNCHANGED <<reqA, reqB, cacheVars, retryVars, scanVars, regionVars, threadVars, volumeVars, billingVars>>

NextKey == BuildKeys

SpecKey == InitKey /\ [][NextKey]_vars

(***************************************************************************)
(* SpecCache: get / set / evict on the shared cache while the clock runs.  *)
(***************************************************************************)
CacheKeys ==
    {BuildCacheKey(<<"eu-west-1">>, <<"stopped_instances">>, <<>>),
     BuildCacheKey(<<"us-east-1">>, <<"stopped_instances">>, <<>>)}
Payloads == {<<>>, <<"i-1">>}

InitCache ==
    /\ cache = EmptyCache /\ now = 0 /\ ops = <<>>
    /\ RetryIdle /\ KeyIdle /\ ScanIdle /\ RegionIdle /\ ThreadIdle /\ VolumeIdle
    /\ BillingIdle

Tick ==
    /\ now < MaxTime
    /\ now' = now + 1
    /\ UNCHANGED <<cache, ops, retryVars, keyVars, scanVars, regionVars, threadVars, volumeVars, billingVars>>

OpRecord(op, key, data, ret, post) ==
    [op |-> op, key |-> key, data |-> data, ret |-> ret, time |-> now,
     pre |-> cache, post |-> post]

CacheGetOp ==
    /\ Len(ops) < MaxOps
    /\ \E k \in CacheKeys :
         LET r == GetCached(cache, k, now)
         IN  /\ cache' = r.cache
             /\ ops' = Append(ops, OpRecord("get", Some(k), <<>>, r.ret, r.cache))
    /\ UNCHANGED <<now, retryVars, keyVars, scanVars, regionVars, threadVars, volumeVars, billingVars>>

CacheSetOp ==
    /\ Len(ops) < MaxOps
    /\ \E k \in CacheKeys, d \in Payloads :
         LET c == SetCache(cache, k, d, now)
         IN  /\ cache' = c
             /\ ops' = Append(ops, OpRecord("set", Some(k), d, None, c))
    /\ UNCHANGED <<now, retryVars, keyVars, scanVars, regionVars, threadVars, volumeVars, billingVars>>

CacheClearOp ==
    /\ Len(ops) < MaxOps
    /\ \E key \in {None} \cup {Some(k) : k \in CacheKeys} :
         LET c == ClearCache(cache, key)
         IN  /\ cache' = c
             /\ ops' = Append(ops, OpRecord("clear", key, <<>>, None, c))
    /\ UNCHANGED <<now, retryVars, keyVars, scanVars, regionVars, threadVars, volumeVars, billingVars>>

NextCache == Tick \/ CacheGetOp \/ CacheSetOp \/ CacheClearOp

SpecCache == InitCache /\ [][NextCache]_vars

(***************************************************************************)
(* SpecRetry: one call of _retry_aws_call, attempt by attempt.             *)
(***************************************************************************)
InitRetry ==
    /\ retry = RetryStart
    /\ rMax \in 1..MaxRetriesBound
    /\ rDelay \in 1..MaxDelay
    /\ CacheIdle /\ KeyIdle /\ ScanIdle /\ RegionIdle /\ ThreadIdle /\ VolumeIdle
    /\ BillingIdle

RetryAttempt ==
    /\ retry.status = "loop"
    /\ \E out \in Outcomes : retry' = RetryStep(retry, out, rMax, rDelay)
    /\ UNCHANGED <<rMax, rDelay, cacheVars, keyVars, scanVars, regionVars, threadVars, volumeVars, billingVars>>

NextRetry == RetryAttempt

SpecRetry == InitRetry /\ [][NextRetry]_vars

(***************************************************************************)
(* SpecScan: one scanner object is constructed over a backing store that   *)
(* does not change; scan calls are made on it one after the other while    *)
(* the clock runs.  lastCall records the last call made.                   *)
(***************************************************************************)
ScannerKinds ==
    {"stopped_instances", "unattached_volumes", "old_snapshots",
     "unassociated_eips", "unused_buckets", "unused_access_keys"}

\* the kinds whose scanner class derives from BaseScanner
BaseScannerKinds == ScannerKinds \ {"unassociated_eips"}

\* the scanners constructed: S3Scanner and IAMScanner fix region us-east-1,
\* the thresholds are the defaults of the scan methods
Scanners ==
    {[kind |-> k,
      region |-> IF k \in {"unused_buckets", "unused_access_keys"}
                 THEN <<"us-east-1">> ELSE <<"eu-west-1">>,
      threshold |-> 90] : k \in ScannerKinds}

\* what one invocation of the list call may do
ListOutcomes == {"ok", "Throttling", "AccessDenied", "Exception"}

\* what the successive invocations of the list call do during one scan call;
\* a scan makes no invocation after one that does not fail with a transient
\* error, so the entries after it are immaterial and fixed to "ok"
Scripts ==
    {s \in [1..DefaultMaxRetries -> ListOutcomes] :
        \A i, j \in 1..DefaultMaxRetries :
            (s[i] \notin RetryableErrors /\ i < j) => s[j] = "ok"}

\* the raw items of the backing store, per kind: nothing, or a few items on
\* both sides of the scanner's filter
Listings(kind) ==
    CASE kind = "stopped_instances" ->
           {<<>>, <<[InstanceId |-> "i-1", age_days |-> 40]>>}
      [] kind = "unattached_volumes" ->
           {<<>>,
            <<[VolumeId |-> "vol-1", State |-> "available", age_days |-> 10],
              [VolumeId |-> "vol-2", State |-> "in-use", age_days |-> 3]>>}
      [] kind = "old_snapshots" ->
           {<<>>,
            <<[SnapshotId |-> "snap-1", VolumeId |-> "vol-1", age_days |-> 200,
               lookup |-> "InvalidVolume.NotFound"],
              [SnapshotId |-> "snap-2", VolumeId |-> "vol-2", age_days |-> 30,
               lookup |-> "ok"]>>,
            <<[SnapshotId |-> "snap-1", VolumeId |-> "vol-1", age_days |-> 200,
               lookup |-> "ok"],
              [SnapshotId |-> "snap-3", VolumeId |-> "vol-3", age_days |-> 100,
               lookup |-> "AccessDenied"]>>}
      [] kind = "unassociated_eips" ->
           {<<>>,
            <<[AllocationId |-> "eipalloc-1", AssociationId |-> None],
              [AllocationId |-> "eipalloc-2",
               AssociationId |-> Some("eipassoc-2")]>>}
      [] kind = "unused_buckets" ->
           {<<>>,
            <<[Name |-> "b1", age_days |-> 100, probe |-> "ok", has_contents |-> TRUE],
              [Name |-> "b2", age_days |-> 10, probe |-> "ok", has_contents |-> FALSE],
              [Name |-> "b3", age_days |-> 10, probe |-> "AccessDenied",
               has_contents |-> FALSE]>>}
      [] kind = "unused_access_keys" ->
           {<<>>,
            <<[UserName |-> "u1", list_keys |-> "ok",
               keys |-> <<[AccessKeyId |-> "k1", last_used |-> "ok",
                           last_used_days |-> None, create_days |-> 120],
                          [AccessKeyId |-> "k2", last_used |-> "AccessDenied",
                           last_used_days |-> Some(200), create_days |-> 300]>>],
              [UserName |-> "u2", list_keys |-> "AccessDenied", keys |-> <<>>]>>}

InitScan ==
    /\ scanner \in Scanners
    /\ listing \in Listings(scanner.kind)
    /\ lastCall = NoCall
    /\ cache = EmptyCache /\ now = 0 /\ ops = <<>>
    /\ RetryIdle /\ KeyIdle /\ RegionIdle /\ ThreadIdle /\ VolumeIdle
    /\ BillingIdle

\* a scan call that did r is recorded and its new cache installed
Called(use_cache, r) ==
    /\ cache' = r.cache
    /\ lastCall' = [made |-> TRUE, use_cache |-> use_cache, time |-> now,
                    outs |-> r.outs, hit |-> r.hit, soft |-> r.soft, ret |-> r.ret,
                    raised |-> r.raised, pre |-> cache, post |-> r.cache]
    /\ UNCHANGED <<scanner, listing, now, ops, retryVars, keyVars, regionVars, threadVars, volumeVars, billingVars>>

CallScanStoppedInstances ==
    /\ scanner.kind = "stopped_instances"
    /\ \E use_cache \in BOOLEAN, script \in Scripts :
         Called(use_cache, ScanStoppedInstances(cache, now, scanner.region, listing,
                                                use_cache, script))

CallScanUnattachedVolumes ==
    /\ scanner.kind = "unattached_volumes"
    /\ \E use_cache \in BOOLEAN, script \in Scripts :
         Called(use_cache, ScanUnattachedVolumes(cache, now, scanner.region, listing,
                                                 use_cache, script))

CallScanOldSnapshots ==
    /\ scanner.kind = "old_snapshots"
    /\ \E use_cache \in BOOLEAN, script \in Scripts :
         Called(use_cache, ScanOldSnapshots(cache, now, scanner.region, listing,
                                            scanner.threshold, use_cache, script))

\* scan_unassociated_eips takes no use_cache: it is called as the other scan
\* methods are called by default, which is use_cache=True
CallScanUnassociatedEips ==
    /\ scanner.kind = "unassociated_eips"
    /\ \E script \in Scripts :
         Called(TRUE, ScanUnassociatedEips(cache, now, scanner.region, listing, script))

CallScanUnusedBuckets ==
    /\ scanner.kind = "unused_buckets"
    /\ \E use_cache \in BOOLEAN, script \in Scripts :
         Called(use_cache, ScanUnusedBuckets(cache, now, scanner.region, listing,
                                             use_cache, script))

CallScanUnusedAccessKeys ==
    /\ scanner.kind = "unused_access_keys"
    /\ \E use_cache \in BOOLEAN, script \in Scripts :
         Called(use_cache, ScanUnusedAccessKeys(cache, now, scanner.region, listing,
                                                scanner.threshold, use_cache, script))

NextScan ==
    \/ Tick
    \/ CallScanStoppedInstances
    \/ CallScanUnattachedVolumes
    \/ CallScanOldSnapshots
    \/ CallScanUnassociatedEips
    \/ CallScanUnusedBuckets
    \/ CallScanUnusedAccessKeys

SpecScan == InitScan /\ [][NextScan]_vars

(***************************************************************************)
(* SpecRegions: MultiRegionScanner.scan_all_regions(max_workers).          *)
(* The calling thread submits one _scan_region task per region to a        *)
(* ThreadPoolExecutor, then takes the futures as they complete.  A worker  *)
(* of the pool takes the oldest queued task whenever fewer than            *)
(* max_workers tasks are running.  A task runs the four scanners of its    *)
(* region in turn; one step of a task is one scan call.                    *)
(***************************************************************************)
\* MultiRegionScanner.REGIONS
AllRegions ==
    <<"us-east-1", "us-west-1", "us-west-2", "eu-west-1", "eu-central-1",
      "ap-southeast-1", "ap-northeast-1">>

\* the regions scanned: the first NumRegions of REGIONS
REGIONS == SubSeq(AllRegions, 1, NumRegions)

RegionSet == {REGIONS[i] : i \in 1..Len(REGIONS)}

\* the keys of the dict _scan_region returns, in the order they are evaluated
ResourceKinds ==
    <<"stopped_instances", "unattached_volumes", "old_snapshots",
      "unassociated_eips">>

\* the backing store of a region: one flagged resource of each kind, named
\* after the region
RegionListing(region, kind) ==
    CASE kind = "stopped_instances" -> <<[InstanceId |-> region, age_days |-> 40]>>
      [] kind = "unattached_volumes" ->
           <<[VolumeId |-> region, State |-> "available", age_days |-> 10]>>
      [] kind = "old_snapshots" ->
           <<[SnapshotId |-> region, VolumeId |-> "vol-1", age_days |-> 200,
              lookup |-> "ok"]>>
      [] kind = "unassociated_eips" ->
           <<[AllocationId |-> region, AssociationId |-> None]>>

\* what processing the items of a scan may meet besides success: an
\* exception that is no ClientError, where processing makes a remote call
ItemFaults(kind) ==
    IF kind \in {"stopped_instances", "old_snapshots"}
    THEN {"none", "Exception"} ELSE {"none"}

\* the backing store of a region when the remote call made for its item
\* (the load of the instance's volume, the lookup of the snapshot's volume)
\* does `item`
RegionItems(region, kind, item) ==
    IF item = "none" THEN RegionListing(region, kind)
    ELSE IF kind = "stopped_instances"
    THEN <<[InstanceId |-> region, age_days |-> 40,
            BlockDeviceMappings |->
               <<[Ebs |-> TRUE, volume_type |-> "gp2", size |-> 50, load |-> item]>>]>>
    ELSE IF kind = "old_snapshots"
    THEN <<[SnapshotId |-> region, VolumeId |-> "vol-1", age_days |-> 200,
            lookup |-> item]>>
    ELSE RegionListing(region, kind)

\* what the list call of a scanner does during a region task: it succeeds,
\* or it raises an exception that is no ClientError
RegionScripts ==
    {[i \in 1..DefaultMaxRetries |-> "ok"],
     [i \in 1..DefaultMaxRetries |-> IF i = 1 THEN "Exception" ELSE "ok"]}

\* the k-th scan call of _scan_region(region): EC2Scanner(region)
\* .scan_stopped_instances(), ..., EIPScanner(region).scan_unassociated_eips()
RegionScan(region, k, c, t, script, item) ==
    LET items == RegionItems(region, ResourceKinds[k], item)
    IN  CASE k = 1 -> ScanStoppedInstances(c, t, <<region>>, items, TRUE, script)
          [] k = 2 -> ScanUnattachedVolumes(c, t, <<region>>, items, TRUE, script)
          [] k = 3 -> ScanOldSnapshots(c, t, <<region>>, items, 90, TRUE, script)
          [] k = 4 -> ScanUnassociatedEips(c, t, <<region>>, items, script)

\* the dict _scan_region returns, from the four lists
RegionResult(lists) ==
    [stopped_instances |-> lists[1], unattached_volumes |-> lists[2],
     old_snapshots |-> lists[3], unassociated_eips |-> lists[4]]

\* a substitute dict that has the four empty lists and no 'error' entry
ErrorResultUnmarked(e) == RegionResult(<<<<>>, <<>>, <<>>, <<>>>>)

\* the dict stored for a region whose future raised e
ErrorResult(e) ==
    [stopped_instances |-> <<>>, unattached_volumes |-> <<>>,
     old_snapshots |-> <<>>, unassociated_eips |-> <<>>, error |-> e]

\* the loop over as_completed without the except clause
CatchesNoException(exc) == FALSE

\* `except Exception as e` around future.result()
CatchesException(exc) == exc \in {"Exception"} \cup ClientErrorCodes

\* a region task: starts counts the times a worker began it, scanned lists
\* the scan calls begun, active holds the scan calls begun and not yet ended;
\* outs and item tell of the last scan call ended what the invocations of its
\* list call did and what the remote call made for its item did
NewTask ==
    [state |-> "unsubmitted", starts |-> 0, scanned |-> <<>>, active |-> {},
     lists |-> <<>>, outcome |-> "none", exc |-> "none", collected |-> FALSE,
     outs |-> <<>>, item |-> "none"]

Running == {r \in RegionSet : task[r].state = "running"}

\* the place of a region in REGIONS, the order of submission
RegionIndex(r) == CHOOSE i \in 1..Len(REGIONS) : REGIONS[i] = r

InitRegions ==
    /\ maxWorkers \in 1..MaxWorkersBound
    /\ task = [r \in RegionSet |-> NewTask]
    /\ results = <<>>
    /\ mpc = "submit"
    /\ CacheIdle /\ RetryIdle /\ KeyIdle /\ ScanIdle /\ ThreadIdle /\ VolumeIdle
    /\ BillingIdle

\* executor.submit(self._scan_region, region), in the order of REGIONS
Submit ==
    /\ mpc = "submit"
    /\ \E r \in RegionSet :
         /\ task[r].state = "unsubmitted"
         /\ \A q \in RegionSet : RegionIndex(q) < RegionIndex(r) =>
                                   task[q].state # "unsubmitted"
         /\ task' = [task EXCEPT ![r].state = "queued"]
    /\ UNCHANGED <<maxWorkers, results, mpc, cacheVars, retryVars, keyVars, scanVars, threadVars, volumeVars, billingVars>>

\* the dict comprehension is complete: the loop over as_completed starts
SubmitDone ==
    /\ mpc = "submit"
    /\ \A r \in RegionSet : task[r].state # "unsubmitted"
    /\ mpc' = "collect"
    /\ UNCHANGED <<maxWorkers, task, results, cacheVars, retryVars, keyVars, scanVars, threadVars, volumeVars, billingVars>>

\* a pool that starts a thread for every task submitted
WorkerAlwaysFree == TRUE

\* ThreadPoolExecutor(max_workers): a task is taken off the queue only by one
\* of at most max_workers worker threads, each running one task at a time
WorkerFree == Cardinality(Running) < maxWorkers

\* a worker thread takes the oldest queued task
StartTask ==
    /\ WorkerFree
    /\ \E r \in RegionSet :
         /\ task[r].state = "queued"
         /\ \A q \in RegionSet : RegionIndex(q) < RegionIndex(r) =>
                                   task[q].state # "queued"
         /\ task' = [task EXCEPT ![r].state = "running", ![r].starts = @ + 1]
    /\ UNCHANGED <<maxWorkers, results, mpc, cacheVars, retryVars, keyVars, scanVars, threadVars, volumeVars, billingVars>>

\* the entries of the dict display are evaluated one after another by the
\* task's thread: the next scan call begins when none is in progress
BeginScan ==
    /\ \E r \in RegionSet :
         /\ task[r].state = "running"
         /\ task[r].active = {}
         /\ Len(task[r].scanned) < Len(ResourceKinds)
         /\ LET kind == ResourceKinds[Len(task[r].scanned) + 1]
            IN  task' = [task EXCEPT ![r].scanned = Append(@, kind),
                                     ![r].active = @ \cup {kind}]
    /\ UNCHANGED <<maxWorkers, results, mpc, cacheVars, retryVars, keyVars, scanVars, threadVars, volumeVars, billingVars>>

\* the scan call in progress ends; the fourth list completes the task and an
\* exception out of a scan call ends it
ScanStep ==
    \E r \in RegionSet, script \in RegionScripts, item \in {"none", "Exception"} :
        /\ task[r].state = "running"
        /\ task[r].active # {}
        /\ item \in ItemFaults(ResourceKinds[Len(task[r].scanned)])
        /\ LET k  == Len(task[r].scanned)
               sr == RegionScan(r, k, cache, now, script, item)
               met == IF sr.outs # <<>> /\ sr.outs[Len(sr.outs)] = "ok"
                      THEN item ELSE "none"
           IN  /\ cache' = sr.cache
               /\ IF sr.raised # "none"
                  THEN task' = [task EXCEPT ![r].state = "done",
                                            ![r].active = {},
                                            ![r].outcome = "raised",
                                            ![r].exc = sr.raised,
                                            ![r].outs = sr.outs,
                                            ![r].item = met]
                  ELSE IF k = Len(ResourceKinds)
                  THEN task' = [task EXCEPT ![r].state = "done",
                                            ![r].active = {},
                                            ![r].outcome = "ok",
                                            ![r].lists = Append(@, sr.ret),
                                            ![r].outs = sr.outs,
                                            ![r].item = met]
                  ELSE task' = [task EXCEPT ![r].active = {},
                                            ![r].lists = Append(@, sr.ret),
                                            ![r].outs = sr.outs,
                                            ![r].item = met]
        /\ UNCHANGED <<maxWorkers, results, mpc, now, ops, retryVars, keyVars, scanVars, threadVars, volumeVars, billingVars>>

\* one iteration of `for future in as_completed(future_to_region)`
CollectFuture ==
    /\ mpc = "collect"
    /\ \E r \in RegionSet :
         /\ task[r].state = "done" /\ ~task[r].collected
         /\ task' = [task EXCEPT ![r].collected = TRUE]
         /\ IF task[r].outcome = "ok"
            THEN /\ results' = [x \in (DOMAIN results) \cup {r} |->
                                  IF x = r THEN RegionResult(task[r].lists)
                                  ELSE results[x]]
                 /\ mpc' = mpc
            ELSE IF CatchesException(task[r].exc)
            THEN /\ results' = [x \in (DOMAIN results) \cup {r} |->
                                  IF x = r THEN ErrorResult(task[r].exc)
                                  ELSE results[x]]
                 /\ mpc' = mpc
            ELSE /\ results' = results
                 /\ mpc' = "raised"
    /\ UNCHANGED <<maxWorkers, cacheVars, retryVars, keyVars, scanVars, threadVars, volumeVars, billingVars>>

\* as_completed that stops after the first future it yields
AnyYielded == \E r \in RegionSet : task[r].collected

\* as_completed(future_to_region) is exhausted: it has yielded every future
AllYielded == \A r \in RegionSet : task[r].collected

\* every future was yielded; the executor is shut down and results returned
Return ==
    /\ mpc = "collect"
    /\ AllYielded
    /\ mpc' = "returned"
    /\ UNCHANGED <<maxWorkers, task, results, cacheVars, retryVars, keyVars, scanVars, threadVars, volumeVars, billingVars>>

NextRegions ==
    Submit \/ SubmitDone \/ StartTask \/ BeginScan \/ ScanStep \/ CollectFuture \/ Return

SpecRegions == InitRegions /\ [][NextRegions]_vars

\* the threads of the process keep being scheduled: while some thread (the
\* caller or a pool worker) can take a step, one of them eventually does
SpecRegionsFair == SpecRegions /\ WF_vars(NextRegions)

(***************************************************************************)
(* SpecThreads: several threads call _get_cached, _set_cache and           *)
(* _clear_cache on the class-level cache.  Each method runs its body       *)
(* inside `with self._cache_lock:`; a thread is "wait"ing for the lock,    *)
(* "in" the body, or (in _get_cached) "read", past the membership test and *)
(* the read of the entry and before the age test.                          *)
(***************************************************************************)
Threads == 1..NumThreads

\* the value of the lock that no thread holds
NoThread == 0

\* the payload thread t stores
ThreadPayload(t) == <<ToString(t)>>

ThreadPayloads == {ThreadPayload(t) : t \in Threads}

NoSet == [k \in CacheKeys |-> -1]

\* setAt[k]: when the thread last completed _set_cache(k, ...), -1 if never
\* or if some thread has evicted k since; last: the thread's last completed
\* _get_cached, with mustHit telling that the thread's own set of that key
\* was less than the TTL before and no evict came between
NewThread ==
    [pc |-> "idle", op |-> "none", key |-> None, loc |-> None, n |-> 0,
     setAt |-> NoSet,
     last |-> [ret |-> None, mustHit |-> FALSE, raised |-> "none"]]

InitThreads ==
    /\ cache = EmptyCache /\ now = 0 /\ ops = <<>>
    /\ lock = NoThread
    /\ thr = [t \in Threads |-> NewThread]
    /\ RetryIdle /\ KeyIdle /\ ScanIdle /\ RegionIdle /\ VolumeIdle
    /\ BillingIdle

\* a thread calls one of the three cache methods
ThreadCall ==
    /\ \E t \in Threads, op \in {"get", "set", "clear"},
          key \in {None} \cup {Some(k) : k \in CacheKeys} :
         /\ thr[t].pc = "idle"
         /\ thr[t].n < MaxThreadOps
         /\ op \in {"get", "set"} => key.present
         /\ thr' = [thr EXCEPT ![t].pc = "wait", ![t].op = op, ![t].key = key,
                                ![t].loc = None]
    /\ UNCHANGED <<lock, cacheVars, retryVars, keyVars, scanVars, regionVars, volumeVars, billingVars>>

\* a lock that every thread may enter at any time
LockAlwaysFree(l) == TRUE

\* threading.Lock: it is acquired only while no thread holds it
LockFree(l) == l = NoThread

\* `with self._cache_lock:` is entered
ThreadAcquire ==
    /\ \E t \in Threads :
         /\ thr[t].pc = "wait"
         /\ LockFree(lock)
         /\ lock' = t
         /\ thr' = [thr EXCEPT ![t].pc = "in"]
    /\ UNCHANGED <<cacheVars, retryVars, keyVars, scanVars, regionVars, volumeVars, billingVars>>

\* what is left of the lock when thread t leaves the with block
Released(t) == IF lock = t THEN NoThread ELSE lock

\* body of _set_cache, and the end of the with block
ThreadSet ==
    /\ \E t \in Threads :
         /\ thr[t].pc = "in" /\ thr[t].op = "set"
         /\ cache' = SetCache(cache, thr[t].key.data, ThreadPayload(t), now)
         /\ lock' = Released(t)
         /\ thr' = [thr EXCEPT ![t].pc = "idle", ![t].n = @ + 1,
                                ![t].setAt[thr[t].key.data] = now]
    /\ UNCHANGED <<now, ops, retryVars, keyVars, scanVars, regionVars, volumeVars, billingVars>>

\* body of _clear_cache, and the end of the with block
ThreadClear ==
    /\ \E t \in Threads :
         /\ thr[t].pc = "in" /\ thr[t].op = "clear"
         /\ cache' = ClearCache(cache, thr[t].key)
         /\ lock' = Released(t)
         /\ thr' = [u \in Threads |->
                      [thr[u] EXCEPT
                         !.pc = IF u = t THEN "idle" ELSE @,
                         !.n  = IF u = t THEN @ + 1 ELSE @,
                         !.setAt = [k \in CacheKeys |->
                                      IF thr[t].key.present /\ thr[t].key.data # k
                                      THEN @[k] ELSE -1]]]
    /\ UNCHANGED <<now, ops, retryVars, keyVars, scanVars, regionVars, volumeVars, billingVars>>

\* _get_cached: `if cache_key in self._cache: data, timestamp = ...`
ThreadGetRead ==
    /\ \E t \in Threads :
         /\ thr[t].pc = "in" /\ thr[t].op = "get"
         /\ LET k == thr[t].key.data
            IN  thr' = [thr EXCEPT ![t].pc = "read",
                                   ![t].loc = IF k \in DOMAIN cache
                                              THEN Some(cache[k]) ELSE None]
    /\ UNCHANGED <<lock, cacheVars, retryVars, keyVars, scanVars, regionVars, volumeVars, billingVars>>

\* _get_cached: the age test, the return of data or the del of the entry (a
\* KeyError if the entry is gone), and the end of the with block
ThreadGetFinish ==
    /\ \E t \in Threads :
         /\ thr[t].pc = "read"
         /\ LET k       == thr[t].key.data
                loc     == thr[t].loc
                hit     == loc.present /\ Fresh(now - loc.data.timestamp)
                expired == loc.present /\ ~Fresh(now - loc.data.timestamp)
                gone    == expired /\ k \notin DOMAIN cache
                mustHit == thr[t].setAt[k] >= 0 /\ now - thr[t].setAt[k] < CacheTtl
            IN  /\ cache' = IF expired THEN CacheDel(cache, k) ELSE cache
                /\ thr' = [thr EXCEPT
                             ![t].pc = "idle", ![t].n = @ + 1,
                             ![t].last =
                                [ret |-> IF hit THEN Some(loc.data.data) ELSE None,
                                 mustHit |-> mustHit,
                                 raised |-> IF gone THEN "KeyError" ELSE "none"]]
         /\ lock' = Released(t)
    /\ UNCHANGED <<now, ops, retryVars, keyVars, scanVars, regionVars, volumeVars, billingVars>>

\* the clock advances while the threads run
ThreadTick == Tick /\ thr # <<>>

NextThreads ==
    \/ ThreadTick \/ ThreadCall \/ ThreadAcquire \/ ThreadSet \/ ThreadClear
    \/ ThreadGetRead \/ ThreadGetFinish

SpecThreads == InitThreads /\ [][NextThreads]_vars

(***************************************************************************)
(* SpecVolume: one call of SnapshotScanner._check_volume_exists(volume_id). *)
(* The describe_volumes lookup runs under _retry_aws_call with the default  *)
(* max_retries and delay; `retry` is the state of that call.                *)
(***************************************************************************)
VolumeIds == {"unknown", "vol-1", "vol-2"}

InitVolume ==
    /\ volumeId \in VolumeIds
    /\ exists = NoCheck
    /\ retry = RetryStart /\ rMax = DefaultMaxRetries /\ rDelay = DefaultDelay
    /\ CacheIdle /\ KeyIdle /\ ScanIdle /\ RegionIdle /\ ThreadIdle
    /\ BillingIdle

\* `if volume_id == "unknown": return False`
VolumeUnknown ==
    /\ exists.status = "called"
    /\ volumeId = "unknown"
    /\ exists' = [status |-> "done", raised |-> "none", value |-> FALSE]
    /\ UNCHANGED <<volumeId, cacheVars, retryVars, keyVars, scanVars, regionVars,
                   threadVars, billingVars>>

\* one invocation of describe_volumes(VolumeIds=[volume_id]) by the retry loop
VolumeLookup ==
    /\ exists.status = "called"
    /\ volumeId # "unknown"
    /\ retry.status = "loop"
    /\ \E out \in Outcomes : retry' = RetryStep(retry, out, rMax, rDelay)
    /\ UNCHANGED <<volumeId, exists, rMax, rDelay, cacheVars, keyVars, scanVars,
                   regionVars, threadVars, billingVars>>

\* _retry_aws_call has returned or raised: `return True`, or the except clause
VolumeResult ==
    /\ exists.status = "called"
    /\ retry.status # "loop"
    /\ exists' = [VolumeExistsFrom(retry) EXCEPT !.status = "done"]
    /\ UNCHANGED <<volumeId, cacheVars, retryVars, keyVars, scanVars, regionVars,
                   threadVars, billingVars>>

NextVolume == VolumeUnknown \/ VolumeLookup \/ VolumeResult

SpecVolume == InitVolume /\ [][NextVolume]_vars

(***************************************************************************)
(* SpecIam: IAMScanner.scan_unused_access_keys over accounts of up to      *)
(* MaxUsers users with up to MaxKeys access keys each, where each          *)
(* list_access_keys and get_access_key_last_used lookup succeeds or fails. *)
(***************************************************************************)
\* what list_access_keys does for a user, on every invocation
IamLookupOutcomes == {"ok", "AccessDenied"}

\* an access key: never used and created 100 days ago, or last used 10 days
\* ago, or one whose get_access_key_last_used fails
KeyShapes ==
    {[last_used |-> "ok", last_used_days |-> None, create_days |-> 100],
     [last_used |-> "ok", last_used_days |-> Some(10), create_days |-> 100],
     [last_used |-> "AccessDenied", last_used_days |-> None, create_days |-> 100],
     [last_used |-> "Throttling", last_used_days |-> None, create_days |-> 100]}

KeyShapeLists == UNION {[1..n -> KeyShapes] : n \in 0..MaxKeys}

\* the j-th key of the i-th user, named after its place
IamKey(i, j, shape) ==
    [AccessKeyId |-> "k" \o ToString(i) \o ToString(j),
     last_used |-> shape.last_used,
     last_used_days |-> shape.last_used_days,
     create_days |-> shape.create_days]

IamUser(i, list_keys, shapes) ==
    [UserName |-> "u" \o ToString(i), list_keys |-> list_keys,
     keys |-> [j \in 1..Len(shapes) |-> IamKey(i, j, shapes[j])]]

UserShapes == [list_keys : IamLookupOutcomes, shapes : KeyShapeLists]

\* the accounts: what list_users returns, with what the lookups will do
IamListings ==
    UNION {{[i \in 1..n |-> IamUser(i, us[i].list_keys, us[i].shapes)] :
              us \in [1..n -> UserShapes]} : n \in 0..MaxUsers}

InitIam ==
    /\ scanner \in {s \in Scanners : s.kind = "unused_access_keys"}
    /\ listing \in IamListings
    /\ lastCall = NoCall
    /\ cache = EmptyCache /\ now = 0 /\ ops = <<>>
    /\ RetryIdle /\ KeyIdle /\ RegionIdle /\ ThreadIdle /\ VolumeIdle
    /\ BillingIdle

NextIam == CallScanUnusedAccessKeys

SpecIam == InitIam /\ [][NextIam]_vars

(***************************************************************************)
(* SpecS3: S3Scanner.scan_unused_buckets over accounts of up to MaxBuckets *)
(* buckets, of ages on both sides of the 90 days of the flagging test,     *)
(* with or without an object, whose list_objects_v2 probe succeeds or      *)
(* fails.                                                                  *)
(***************************************************************************)
\* age_days of a bucket: (now - CreationDate).days
BucketAges == {89, 90, 91}

\* what list_objects_v2(Bucket=..., MaxKeys=1) does on every invocation
ProbeOutcomes == {"ok", "AccessDenied", "Throttling"}

BucketShapes == [age_days : BucketAges, probe : ProbeOutcomes, has_contents : BOOLEAN]

\* the i-th bucket of the account, named after its place
Bucket(i, shape) ==
    [Name |-> "b" \o ToString(i), age_days |-> shape.age_days,
     probe |-> shape.probe, has_contents |-> shape.has_contents]

\* the accounts: what list_buckets returns, with what the probes will do
BucketListings ==
    UNION {{[i \in 1..n |-> Bucket(i, bs[i])] : bs \in [1..n -> BucketShapes]} :
             n \in 0..MaxBuckets}

InitS3 ==
    /\ scanner \in {s \in Scanners : s.kind = "unused_buckets"}
    /\ listing \in BucketListings
    /\ lastCall = NoCall
    /\ cache = EmptyCache /\ now = 0 /\ ops = <<>>
    /\ RetryIdle /\ KeyIdle /\ RegionIdle /\ ThreadIdle /\ VolumeIdle
    /\ BillingIdle

NextS3 == CallScanUnusedBuckets

SpecS3 == InitS3 /\ [][NextS3]_vars

(***************************************************************************)
(* SpecTiers: the instance scan and the volume scan over one resource of   *)
(* every age from 0 to MaxAge days.                                        *)
(***************************************************************************)
AgedListings(kind) ==
    IF kind = "stopped_instances"
    THEN {<<[InstanceId |-> "i-1", age_days |-> a]>> : a \in 0..MaxAge}
    ELSE {<<[VolumeId |-> "vol-1", State |-> "available", age_days |-> a]>> :
            a \in 0..MaxAge}

InitTiers ==
    /\ scanner \in {s \in Scanners :
                      s.kind \in {"stopped_instances", "unattached_volumes"}}
    /\ listing \in AgedListings(scanner.kind)
    /\ lastCall = NoCall
    /\ cache = EmptyCache /\ now = 0 /\ ops = <<>>
    /\ RetryIdle /\ KeyIdle /\ RegionIdle /\ ThreadIdle /\ VolumeIdle
    /\ BillingIdle

NextTiers == CallScanStoppedInstances \/ CallScanUnattachedVolumes

SpecTiers == InitTiers /\ [][NextTiers]_vars

(***************************************************************************)
(* SpecSnapshots: SnapshotScanner.scan_old_snapshots(age_threshold_days)   *)
(* over accounts of up to MaxSnapshots snapshots, of ages around the       *)
(* threshold and around the 180 days of the recommendation, whose source   *)
(* volume is unknown, exists, is not found, or cannot be looked up.        *)
(***************************************************************************)
\* the age_threshold_days argument: the default and another value
SnapshotThresholds == {90, 180}

\* age_days of a snapshot: (now - StartTime).days
SnapshotAges == {89, 90, 180, 181}

\* what describe_volumes(VolumeIds=[volume_id]) does on every invocation
VolumeLookupOutcomes == {"ok", "InvalidVolume.NotFound", "AccessDenied", "Throttling"}

SnapshotShapes ==
    [age_days : SnapshotAges, VolumeId : {"unknown", "vol-1"},
     lookup : VolumeLookupOutcomes]

\* the i-th snapshot of the account, named after its place
Snapshot(i, shape) ==
    [SnapshotId |-> "snap-" \o ToString(i), VolumeId |-> shape.VolumeId,
     age_days |-> shape.age_days, lookup |-> shape.lookup]

\* the accounts: what describe_snapshots returns, with what the volume
\* lookups will do
SnapshotListings ==
    UNION {{[i \in 1..n |-> Snapshot(i, ss[i])] : ss \in [1..n -> SnapshotShapes]} :
             n \in 0..MaxSnapshots}

InitSnapshots ==
    /\ scanner \in {[kind |-> "old_snapshots", region |-> <<"eu-west-1">>,
                     threshold |-> th] : th \in SnapshotThresholds}
    /\ listing \in SnapshotListings
    /\ lastCall = NoCall
    /\ cache = EmptyCache /\ now = 0 /\ ops = <<>>
    /\ RetryIdle /\ KeyIdle /\ RegionIdle /\ ThreadIdle /\ VolumeIdle
    /\ BillingIdle

NextSnapshots == CallScanOldSnapshots

SpecSnapshots == InitSnapshots /\ [][NextSnapshots]_vars

(***************************************************************************)
(* SpecEbsCost: the instance scan over one stopped instance with up to     *)
(* MaxVolumes block device mappings, of the volume types and sizes of the  *)
(* pricing rule, whose volume lookup succeeds or fails.                    *)
(***************************************************************************)
\* what loading ec2_resource.Volume(volume_id) does: the lookup is not
\* wrapped in the retry policy
VolumeLoadOutcomes == {"ok", "AccessDenied", "Exception"}

\* a mapping without 'Ebs', or an attached volume
MappingShapes ==
    {[Ebs |-> FALSE, volume_type |-> "none", size |-> 0, load |-> "ok"]}
    \cup {[Ebs |-> TRUE, volume_type |-> v[1], size |-> v[2], load |-> out] :
            v \in {<<"gp2", 50>>, <<"gp3", 30>>, <<"gp3", 50>>, <<"io1", 30>>},
            out \in VolumeLoadOutcomes}

MappingLists ==
    UNION {[1..n -> MappingShapes] : n \in 0..MaxVolumes}

EbsListings ==
    {<<[InstanceId |-> "i-1", age_days |-> 40, BlockDeviceMappings |-> ms]>> :
        ms \in MappingLists}

InitEbsCost ==
    /\ scanner \in {s \in Scanners : s.kind = "stopped_instances"}
    /\ listing \in EbsListings
    /\ lastCall = NoCall
    /\ cache = EmptyCache /\ now = 0 /\ ops = <<>>
    /\ RetryIdle /\ KeyIdle /\ RegionIdle /\ ThreadIdle /\ VolumeIdle
    /\ BillingIdle

NextEbsCost == CallScanStoppedInstances

SpecEbsCost == InitEbsCost /\ [][NextEbsCost]_vars

(***************************************************************************)
(* SpecBilling: CostAnalyzer.calculate_total_waste over scan results of    *)
(* every shape, with a billing API whose three invocations each succeed,   *)
(* fail with a ClientError, or fail with another exception.                *)
(***************************************************************************)
\* what one get_cost_and_usage invocation does
BillingOutcomes == {"ok", "Throttling", "Exception"}

\* the bills of the last 30 days: service name -> cost
Bills ==
    {<<>>,
     [n \in {"Amazon Elastic Compute Cloud - Compute", "EC2 - Other",
             "Amazon Simple Storage Service"} |->
        CASE n = "Amazon Elastic Compute Cloud - Compute" -> 10000
          [] n = "EC2 - Other" -> 2500
          [] OTHER -> 500]}

\* the flagged resources of one kind: none, or one with its monthly cost
FlaggedOf(kind) ==
    CASE kind = "stopped_instances" ->
           {<<>>, <<[instance_id |-> "i-1", ebs_monthly_cost |-> 740]>>}
      [] kind = "unattached_volumes" ->
           {<<>>, <<[volume_id |-> "vol-1", monthly_cost |-> 800]>>}
      [] kind = "old_snapshots" ->
           {<<>>, <<[snapshot_id |-> "snap-1", monthly_cost |-> 250],
                    [snapshot_id |-> "snap-2", monthly_cost |-> 50]>>}
      [] OTHER ->
           {<<>>, <<[allocation_id |-> "eip-1", monthly_cost |-> 360]>>}

WasteKinds ==
    {"stopped_instances", "unattached_volumes", "old_snapshots", "unassociated_eips"}

\* the scan_results arguments: a dict without any key, or one with the four
\* kinds
ScanResultsArgs ==
    {<<>>} \cup {sr \in [WasteKinds -> UNION {FlaggedOf(k) : k \in WasteKinds}] :
                    \A k \in WasteKinds : sr[k] \in FlaggedOf(k)}

InitBilling ==
    /\ scanResults \in ScanResultsArgs
    /\ billing \in [outs : [1..3 -> BillingOutcomes], service_costs : Bills]
    /\ report = NoReport
    /\ CacheIdle /\ RetryIdle /\ KeyIdle /\ ScanIdle /\ RegionIdle /\ ThreadIdle
    /\ VolumeIdle

\* analyzer.calculate_total_waste(scan_results)
CallCalculateTotalWaste ==
    /\ ~report.made
    /\ report' = CalculateTotalWaste(scanResults, billing.outs, billing.service_costs)
    /\ UNCHANGED <<scanResults, billing, cacheVars, retryVars, keyVars, scanVars,
                   regionVars, threadVars, volumeVars>>

NextBilling == CallCalculateTotalWaste

SpecBilling == InitBilling /\ [][NextBilling]_vars

(***************************************************************************)
(* SpecScanThreads: the threads of the process each call                   *)
(* EBSScanner(region).scan_unattached_volumes(use_cache=True) once, on the *)
(* same region and so the same fingerprint, from a cold cache.  A scan is  *)
(* waiting for or inside the lock of _get_cached ("get_wait", "get_in"),   *)
(* about to make the remote list call after a miss ("list"), waiting for   *)
(* or inside the lock of _set_cache ("set_wait", "set_in"), or "done".     *)
(* ops logs the remote list calls: who made it and what its invocations    *)
(* did.                                                                    *)
(***************************************************************************)
ThreadScanRegion == <<"eu-west-1">>

ThreadScanKey == BuildCacheKey(ThreadScanRegion, <<"unattached_volumes">>, <<>>)

\* the unchanged backing store
ThreadScanItems ==
    <<[VolumeId |-> "vol-1", State |-> "available", age_days |-> 10],
      [VolumeId |-> "vol-2", State |-> "in-use", age_days |-> 3]>>

\* called: the scans that had returned when this one was called
NewScanThread ==
    [pc |-> "idle", loc |-> <<>>, ret |-> <<>>, hit |-> FALSE, soft |-> FALSE,
     raised |-> "none", called |-> {}, getAt |-> -1, setAt |-> -1]

InitScanThreads ==
    /\ cache = EmptyCache /\ now = 0 /\ ops = <<>>
    /\ lock = NoThread
    /\ thr = [t \in Threads |-> NewScanThread]
    /\ RetryIdle /\ KeyIdle /\ ScanIdle /\ RegionIdle /\ VolumeIdle
    /\ BillingIdle

\* a thread calls scan_unattached_volumes(use_cache=True): _get_cached is
\* entered and waits for the lock
ScanEnter ==
    /\ \E t \in Threads :
         /\ thr[t].pc = "idle"
         /\ thr' = [thr EXCEPT ![t].pc = "get_wait",
                                ![t].called = {u \in Threads : thr[u].pc = "done"}]
    /\ UNCHANGED <<lock, cacheVars, retryVars, keyVars, scanVars, regionVars, volumeVars, billingVars>>

\* `with self._cache_lock:` of _get_cached or of _set_cache is entered
ScanAcquire ==
    /\ \E t \in Threads :
         /\ thr[t].pc \in {"get_wait", "set_wait"}
         /\ LockFree(lock)
         /\ lock' = t
         /\ thr' = [thr EXCEPT ![t].pc = IF @ = "get_wait" THEN "get_in" ELSE "set_in"]
    /\ UNCHANGED <<cacheVars, retryVars, keyVars, scanVars, regionVars, volumeVars, billingVars>>

\* the body of _get_cached and `if cached is not None: return cached`
ScanLookup ==
    /\ \E t \in Threads :
         /\ thr[t].pc = "get_in"
         /\ LET look == GetCached(cache, ThreadScanKey, now)
            IN  /\ cache' = look.cache
                /\ thr' = [thr EXCEPT
                             ![t].pc = IF look.ret.present THEN "done" ELSE "list",
                             ![t].hit = look.ret.present,
                             ![t].ret = IF look.ret.present THEN look.ret.data ELSE <<>>,
                             ![t].getAt = now]
         /\ lock' = Released(t)
    /\ UNCHANGED <<now, ops, retryVars, keyVars, scanVars, regionVars, volumeVars, billingVars>>

\* the try block up to the cache write: the remote list call under the retry
\* policy and the loop over the volumes; a ClientError ends the scan with []
ScanList ==
    /\ \E t \in Threads, script \in Scripts :
         /\ thr[t].pc = "list"
         /\ LET pages == RetryAwsCall(script)
                p     == Collect([i \in 1..Len(ThreadScanItems) |->
                                    ProcessUnattachedVolume(ThreadScanItems[i])])
                exc   == IF pages.status = "raised" THEN pages.value ELSE p.raised
            IN  /\ ops' = Append(ops, [thread |-> t, outs |-> pages.outs])
                /\ thr' = [thr EXCEPT
                             ![t].pc = IF exc = "none" THEN "set_wait" ELSE "done",
                             ![t].loc = IF exc = "none" THEN p.out ELSE <<>>,
                             ![t].soft = exc # "none" /\ CatchesClientError(exc),
                             ![t].raised = IF exc # "none" /\ ~CatchesClientError(exc)
                                           THEN exc ELSE "none"]
    /\ UNCHANGED <<lock, cache, now, retryVars, keyVars, scanVars, regionVars, volumeVars, billingVars>>

\* the body of _set_cache and `return unattached_volumes`
ScanStore ==
    /\ \E t \in Threads :
         /\ thr[t].pc = "set_in"
         /\ cache' = SetCache(cache, ThreadScanKey, thr[t].loc, now)
         /\ lock' = Released(t)
         /\ thr' = [thr EXCEPT ![t].pc = "done", ![t].ret = thr[t].loc,
                                ![t].setAt = now]
    /\ UNCHANGED <<now, ops, retryVars, keyVars, scanVars, regionVars, volumeVars, billingVars>>

ScanThreadsTick == Tick /\ thr # <<>>

NextScanThreads ==
    ScanEnter \/ ScanAcquire \/ ScanLookup \/ ScanList \/ ScanStore \/ ScanThreadsTick

SpecScanThreads == InitScanThreads /\ [][NextScanThreads]_vars

(***************************************************************************)
(* Properties of the retry policy (SpecRetry).                             *)
(***************************************************************************)
AllTransient(outs) == \A i \in 1..Len(outs) : outs[i] \in RetryableErrors

\* C4: an operation that raises a transient error on every invocation is
\* invoked exactly max_retries times (never fewer, never more), and the call
\* then raises the error of the last invocation.
RetryExhaustsOnTransient ==
    LET n == Len(retry.outs)
    IN  AllTransient(retry.outs) =>
          /\ n <= rMax
          /\ (retry.status = "loop" => n < rMax)
          /\ (retry.status # "loop" =>
                /\ n = rMax
                /\ retry.status = "raised"
                /\ retry.value = retry.outs[n])

\* three transient failures, the last differing from the first, then the raise
RetryExhaustedWitness ==
    /\ rMax = DefaultMaxRetries
    /\ Len(retry.outs) = DefaultMaxRetries
    /\ AllTransient(retry.outs)
    /\ retry.outs[1] # retry.outs[DefaultMaxRetries]
    /\ retry.status = "raised"

\* C5: a non-transient ClientError, on whichever attempt it occurs, is the
\* last invocation: it is re-raised at once with no sleep after it (the
\* sleeps are those of the earlier attempts only).
RetryPermanentImmediate ==
    \A i \in 1..Len(retry.outs) :
        retry.outs[i] \in PermanentErrors =>
            /\ i = Len(retry.outs)
            /\ retry.status = "raised"
            /\ retry.value = retry.outs[i]
            /\ Len(retry.sleeps) = i - 1

\* a permanent error on the second attempt, after one transient failure
RetryPermanentWitness ==
    /\ Len(retry.outs) = 2
    /\ retry.outs[1] \in RetryableErrors
    /\ retry.outs[2] \in PermanentErrors
    /\ retry.status = "raised"
    /\ Len(retry.sleeps) = 1

\* C16: the call returns exactly when an invocation succeeds, with that
\* invocation the last one and at most the max_retries-th; every invocation
\* before it failed with a transient error and was followed by one wait of
\* delay * 2^i, i the number of the failed attempt from 0, so the waits are
\* delay, 2*delay, ...; nothing waits before the first invocation or after
\* the last one.
RetryBackoffThenSuccess ==
    LET n == Len(retry.outs)
    IN  /\ \A i \in 1..Len(retry.sleeps) :
              /\ retry.sleeps[i] = rDelay * (2 ^ (i - 1))
              /\ retry.outs[i] \in RetryableErrors
        /\ retry.status = "loop" => Len(retry.sleeps) = n
        /\ retry.status # "loop" => Len(retry.sleeps) = n - 1
        /\ \A i \in 1..n : retry.outs[i] = "ok" =>
              /\ i = n /\ i <= rMax
              /\ retry.status = "returned" /\ retry.value = "ok"
        /\ retry.status = "returned" => n >= 1 /\ retry.outs[n] = "ok"

\* with the defaults: two transient failures, waits of 1 s and 2 s, then the
\* third invocation succeeds
RetryBackoffWitness ==
    /\ rMax = DefaultMaxRetries /\ rDelay = DefaultDelay
    /\ retry.status = "returned"
    /\ Len(retry.outs) = DefaultMaxRetries
    /\ retry.sleeps = <<1, 2>>

(***************************************************************************)
(* Properties of the cache operations (SpecCache).                         *)
(***************************************************************************)
\* C6: a get of fingerprint f that directly follows a set(f, v), less than
\* the TTL later, returns v, whatever the cache held before the set.
GetAfterSetReturnsValue ==
    \A i \in 1..(Len(ops) - 1) :
        (/\ ops[i].op = "set"
         /\ ops[i + 1].op = "get"
         /\ ops[i + 1].key = ops[i].key
         /\ ops[i + 1].time - ops[i].time < 5)
        => ops[i + 1].ret = Some(ops[i].data)

\* a set that overwrote another payload, read back some minutes later
GetAfterSetWitness ==
    \E i \in 1..(Len(ops) - 1) :
        /\ ops[i].op = "set"
        /\ ops[i].key.data \in DOMAIN ops[i].pre
        /\ ops[i].pre[ops[i].key.data].data # ops[i].data
        /\ ops[i + 1].op = "get"
        /\ ops[i + 1].key = ops[i].key
        /\ ops[i + 1].time - ops[i].time = 4
        /\ ops[i + 1].ret = Some(ops[i].data)

\* C7: get(f) returns the payload exactly when f has an entry younger than
\* 5 minutes, and then changes nothing; on an entry aged 5 minutes or more it
\* returns absent and removes that entry and no other; with no entry it
\* returns absent and changes nothing.
GetReturnsIffFresh ==
    \A i \in 1..Len(ops) :
        ops[i].op = "get" =>
            LET f    == ops[i].key.data
                pre  == ops[i].pre
                post == ops[i].post
                had  == f \in DOMAIN pre
            IN  /\ ops[i].ret.present <=> (had /\ ops[i].time - pre[f].timestamp < 5)
                /\ ops[i].ret.present => (ops[i].ret.data = pre[f].data /\ post = pre)
                /\ (had /\ ops[i].time - pre[f].timestamp >= 5) =>
                      /\ DOMAIN post = (DOMAIN pre) \ {f}
                      /\ \A g \in DOMAIN post : post[g] = pre[g]
                /\ ~had => post = pre

\* a get of an entry aged exactly 5 minutes, beside an entry of another key
GetExpiredWitness ==
    \E i \in 1..Len(ops) :
        /\ ops[i].op = "get"
        /\ ops[i].key.data \in DOMAIN ops[i].pre
        /\ ops[i].time - ops[i].pre[ops[i].key.data].timestamp = 5
        /\ Cardinality(DOMAIN ops[i].pre) = 2
        /\ ~ops[i].ret.present
        /\ Cardinality(DOMAIN ops[i].post) = 1

\* C15: _clear_cache(key) leaves exactly the entries of the other keys, each
\* with its payload and timestamp (so it changes nothing when key has no
\* entry), and _clear_cache() leaves the cache empty.
ClearRemovesOnlyKey ==
    \A i \in 1..Len(ops) :
        ops[i].op = "clear" =>
            IF ops[i].key.present
            THEN /\ DOMAIN ops[i].post = (DOMAIN ops[i].pre) \ {ops[i].key.data}
                 /\ \A k \in DOMAIN ops[i].post : ops[i].post[k] = ops[i].pre[k]
            ELSE DOMAIN ops[i].post = {}

\* a key was evicted while another key had an entry, set at another time
ClearOneOfTwoWitness ==
    \E i \in 1..Len(ops) :
        /\ ops[i].op = "clear" /\ ops[i].key.present
        /\ ops[i].key.data \in DOMAIN ops[i].pre
        /\ \E k \in DOMAIN ops[i].post :
              ops[i].pre[k].timestamp # ops[i].pre[ops[i].key.data].timestamp

\* C18: _set_cache stores the payload with the time of the call, also over an
\* entry already there; _get_cached changes no entry it leaves in the cache;
\* and a _get_cached made less than the TTL after the latest _set_cache of
\* its key, no other operation on that key between, returns the payload of
\* that set however old the entry it replaced was.
SetRestartsTtl ==
    \A i \in 1..Len(ops) :
        /\ ops[i].op = "set" =>
              ops[i].post[ops[i].key.data] =
                  [data |-> ops[i].data, timestamp |-> ops[i].time]
        /\ ops[i].op = "get" =>
              \A k \in DOMAIN ops[i].post : ops[i].post[k] = ops[i].pre[k]
        /\ \A j \in (i + 1)..Len(ops) :
              (/\ ops[i].op = "set" /\ ops[j].op = "get"
               /\ ops[j].key = ops[i].key
               /\ ops[j].time - ops[i].time < CacheTtl
               /\ \A m \in (i + 1)..(j - 1) :
                     ops[m].key.present /\ ops[m].key # ops[i].key)
              => ops[j].ret = Some(ops[i].data)

\* a second set of a key, with another payload, and then a get at a time when
\* the first set is as old as the TTL or older and the second is not
SetRestartsTtlWitness ==
    /\ Len(ops) = 3
    /\ ops[1].op = "set" /\ ops[2].op = "set" /\ ops[3].op = "get"
    /\ ops[1].key = ops[2].key /\ ops[3].key = ops[2].key
    /\ ops[1].data # ops[2].data
    /\ ops[3].time - ops[1].time >= CacheTtl
    /\ ops[3].time - ops[2].time < CacheTtl
    /\ ops[3].ret = Some(ops[2].data)

(***************************************************************************)
(* Properties of the cache key (SpecKey).                                  *)
(***************************************************************************)
\* C8: two requests with the same region, resource kind and set of
\* parameter (name, value) pairs get the same key, in whatever order the
\* parameters were supplied.
KeyOrderIndependent ==
    (keyA.present /\ keyB.present /\ SameRequest(reqA, reqB)) => keyA = keyB

\* the same two parameters supplied in the two orders
KeyOrderWitness ==
    /\ keyA.present /\ keyB.present
    /\ SameRequest(reqA, reqB)
    /\ Len(reqA.kwargs) = 2
    /\ reqA.kwargs # reqB.kwargs
    /\ keyA = keyB

Scan(sc, c, t, items, use_cache, script) ==
    CASE sc.kind = "stopped_instances" ->
           ScanStoppedInstances(c, t, sc.region, items, use_cache, script)
      [] sc.kind = "unattached_volumes" ->
           ScanUnattachedVolumes(c, t, sc.region, items, use_cache, script)
      [] sc.kind = "old_snapshots" ->
           ScanOldSnapshots(c, t, sc.region, items, sc.threshold, use_cache, script)
      [] sc.kind = "unassociated_eips" ->
           ScanUnassociatedEips(c, t, sc.region, items, script)
      [] sc.kind = "unused_buckets" ->
           ScanUnusedBuckets(c, t, sc.region, items, use_cache, script)
      [] sc.kind = "unused_access_keys" ->
           ScanUnusedAccessKeys(c, t, sc.region, items, sc.threshold, use_cache, script)

\* lastCall fetched from the remote with one list call that succeeded, and
\* the scan succeeded
FetchedOnce(call) ==
    /\ call.made /\ call.use_cache
    /\ call.outs = <<"ok">> /\ ~call.soft /\ call.raised = "none"

\* the next scan call, with use_cache=true less than the TTL after a scan
\* that fetched once, makes no list call and returns the same list; and a
\* call with use_cache=false always makes a list call
CachedOnceStep ==
    /\ (FetchedOnce(lastCall) /\ lastCall' # lastCall /\ lastCall'.use_cache
          /\ lastCall'.time - lastCall.time < 5)
       => (lastCall'.outs = <<>> /\ lastCall'.ret = lastCall.ret)
    /\ (lastCall' # lastCall /\ ~lastCall'.use_cache) => lastCall'.outs # <<>>

\* C1: for every scanner, two scan calls with use_cache=true made one after
\* the other within the TTL over an unchanged backing store make exactly one
\* remote list call (the second makes none and returns the same list, empty
\* or not), and a call with use_cache=false makes a remote list call.
ScanCachedOnce == [][CachedOnceStep]_vars

\* the same for the five scanners derived from BaseScanner
ScanCachedOnceBaseScanner ==
    [][scanner.kind \in BaseScannerKinds => CachedOnceStep]_vars

\* C2: for every scanner, a scan whose list call ended with a permanent
\* ClientError returns the empty list and raises nothing.
ScanSoftFailsOnPermanentError ==
    (lastCall.made /\ lastCall.outs # <<>>
       /\ lastCall.outs[Len(lastCall.outs)] \in PermanentErrors)
    => (lastCall.ret = <<>> /\ lastCall.raised = "none")

\* the volume scan over a store with an unattached volume, access denied
ScanSoftFailWitness ==
    /\ scanner.kind = "unattached_volumes"
    /\ listing # <<>>
    /\ lastCall.made
    /\ lastCall.outs = <<"AccessDenied">>
    /\ lastCall.ret = <<>> /\ lastCall.raised = "none" /\ lastCall.soft

\* a scan that went to the remote retried its list call after every
\* transient failure short of the last attempt, and when the list call ended
\* by succeeding it returned what a scan without failures returns
RetriedListCall(call) ==
    LET n == Len(call.outs)
    IN  /\ \A i \in 1..n :
              (call.outs[i] \in RetryableErrors /\ i < DefaultMaxRetries) => i < n
        /\ call.outs[n] = "ok" =>
              LET clean == Scan(scanner, call.pre, call.time, listing, call.use_cache,
                                [i \in 1..DefaultMaxRetries |-> "ok"])
              IN  call.ret = clean.ret /\ call.raised = clean.raised

\* C10: for every scanner, the list call of an uncached scan is under the
\* retry policy: transient failures fewer than max_retries followed by
\* success give the result of a scan without failures, and a transient
\* error fails the scan only once the retries are used up.
ScanRetriesListCall ==
    (lastCall.made /\ ~lastCall.hit) => RetriedListCall(lastCall)

\* the same for the four scanners that pass their list call to _retry_aws_call
ScanRetriesListCallWrapped ==
    (lastCall.made /\ ~lastCall.hit
       /\ scanner.kind \notin {"stopped_instances", "unassociated_eips"})
    => RetriedListCall(lastCall)

\* a scan call with use_cache=false makes a list call, is no cache hit and
\* leaves the cache as it found it; and the scan call with use_cache=true that
\* follows it, less than the TTL after the entry was stored, is a hit that
\* makes no list call and returns the payload stored before both calls
BypassStep ==
    /\ (lastCall' # lastCall /\ ~lastCall'.use_cache) =>
          /\ lastCall'.outs # <<>>
          /\ ~lastCall'.hit
          /\ lastCall'.post = lastCall'.pre
          /\ cache' = cache
    /\ (lastCall.made /\ ~lastCall.use_cache /\ lastCall' # lastCall
          /\ lastCall'.use_cache) =>
          \A k \in DOMAIN lastCall.pre :
              Fresh(lastCall'.time - lastCall.pre[k].timestamp) =>
                  /\ lastCall'.hit
                  /\ lastCall'.outs = <<>>
                  /\ lastCall'.ret = lastCall.pre[k].data

\* C17: a scan call with use_cache=false neither reads nor writes the cache:
\* it always makes the remote list call, the cache (entries, payloads and
\* timestamps) is the same after the call as before, and a following call
\* with use_cache=true within the TTL returns the payload cached earlier.
ScanBypassesCache == [][BypassStep]_vars

\* a successful scan with use_cache=false made while the cache held an entry
\* stored by an earlier scan, which is still there with its timestamp
ScanBypassWitness ==
    /\ lastCall.made /\ ~lastCall.use_cache
    /\ lastCall.outs = <<"ok">> /\ lastCall.ret # <<>>
    /\ \E k \in DOMAIN lastCall.pre :
          /\ lastCall.pre[k].timestamp < lastCall.time
          /\ k \in DOMAIN cache /\ cache[k] = lastCall.pre[k]

(***************************************************************************)
(* Properties of scan_all_regions (SpecRegions).                           *)
(***************************************************************************)
\* C3: whichever region tasks raise, scan_all_regions ends by returning a
\* mapping with an entry for every region scanned and for no other key, and
\* the entry of a region whose task did not raise is the dict that task
\* returned.
RegionsIsolated ==
    mpc \in {"returned", "raised"} =>
        /\ mpc = "returned"
        /\ DOMAIN results = RegionSet
        /\ \A r \in RegionSet :
              task[r].outcome = "ok" => results[r] = RegionResult(task[r].lists)

\* returned with the first region failed in its second scanner and the last
\* region scanned in full
RegionsIsolatedWitness ==
    /\ mpc = "returned"
    /\ task[REGIONS[1]].outcome = "raised"
    /\ Len(task[REGIONS[1]].lists) = 1
    /\ task[REGIONS[Len(REGIONS)]].outcome = "ok"
    /\ results[REGIONS[Len(REGIONS)]].stopped_instances # <<>>
    /\ "error" \in DOMAIN results[REGIONS[1]]

\* C11: scan_all_regions returns only when the task of every region is done
\* (it returned its dict or raised into its future), and, the threads being
\* scheduled and every scan call terminating, it does eventually return.
RegionsBarrier ==
    /\ [](mpc = "returned" => \A r \in RegionSet : task[r].state = "done")
    /\ <>(mpc = "returned")

\* returned after a run in which the last region failed and the others did not
RegionsBarrierWitness ==
    /\ mpc = "returned"
    /\ task[REGIONS[Len(REGIONS)]].outcome = "raised"
    /\ \A i \in 1..(Len(REGIONS) - 1) : task[REGIONS[i]].outcome = "ok"

\* C12: at most max_workers region tasks are running, no region task is begun
\* twice and at the return every region task was begun once, and in a region
\* at most one scan call is in progress, the calls being begun in the order
\* instances, volumes, snapshots, addresses, each after the previous ended.
RegionsBoundedSequential ==
    /\ Cardinality(Running) <= maxWorkers
    /\ \A r \in RegionSet :
          /\ task[r].starts <= 1
          /\ mpc = "returned" => task[r].starts = 1
          /\ Cardinality(task[r].active) <= 1
          /\ task[r].scanned = SubSeq(ResourceKinds, 1, Len(task[r].scanned))
          /\ Len(task[r].lists) + Cardinality(task[r].active) <= Len(task[r].scanned)
          /\ Len(task[r].scanned) <= Len(task[r].lists) + 1

\* the pool is full, a submitted task waits in the queue, and a running task
\* is in its snapshot scan
RegionsBoundedWitness ==
    /\ Cardinality(Running) = maxWorkers
    /\ maxWorkers = MaxWorkersBound
    /\ \E r \in RegionSet : task[r].state = "queued"
    /\ \E r \in Running : task[r].active = {"old_snapshots"}

\* C13: in the mapping returned, a region's dict has an 'error' entry exactly
\* when the region's task raised; the four lists of such a dict are empty,
\* whatever the scanners before the failing one had returned; and a task that
\* raised began no scan call after the one that raised.
RegionsErrorMarked ==
    /\ \A r \in RegionSet :
          task[r].outcome = "raised" =>
              /\ task[r].active = {}
              /\ Len(task[r].scanned) = Len(task[r].lists) + 1
    /\ mpc = "returned" =>
          \A r \in RegionSet :
              /\ ("error" \in DOMAIN results[r]) <=> (task[r].outcome = "raised")
              /\ task[r].outcome = "raised" =>
                    /\ results[r].error = task[r].exc
                    /\ \A i \in 1..Len(ResourceKinds) :
                          results[r][ResourceKinds[i]] = <<>>

\* returned with a region whose snapshot scan raised after its instance and
\* volume scans had returned their lists, next to a region without failure
RegionsErrorWitness ==
    /\ mpc = "returned"
    /\ \E r \in RegionSet :
          /\ task[r].outcome = "raised"
          /\ task[r].scanned = SubSeq(ResourceKinds, 1, 3)
          /\ task[r].lists[1] # <<>> /\ task[r].lists[2] # <<>>
          /\ results[r].stopped_instances = <<>>
    /\ \E r \in RegionSet : "error" \notin DOMAIN results[r]

(***************************************************************************)
(* Properties of the cache under concurrent threads (SpecThreads).         *)
(***************************************************************************)
InBody == {t \in Threads : thr[t].pc \in {"in", "read"}}

\* C14: the bodies of the cache methods exclude each other (at most one
\* thread is inside a with block, and it holds the lock); no cache method
\* raises; a _get_cached by a thread whose own _set_cache of that key was
\* less than the TTL ago, with no evict since, returns a payload some thread
\* has set; and a key that a thread has set less than the TTL ago, not
\* evicted since, has its one entry, stamped no earlier than that set.
CacheSerialized ==
    /\ Cardinality(InBody) <= 1
    /\ \A t \in InBody : lock = t
    /\ \A t \in Threads :
          /\ thr[t].last.raised = "none"
          /\ thr[t].last.mustHit =>
                /\ thr[t].last.ret.present
                /\ thr[t].last.ret.data \in ThreadPayloads
          /\ \A k \in CacheKeys :
                (thr[t].setAt[k] >= 0 /\ now - thr[t].setAt[k] < CacheTtl) =>
                    /\ k \in DOMAIN cache
                    /\ cache[k].data \in ThreadPayloads
                    /\ cache[k].timestamp >= thr[t].setAt[k]

\* every thread has set the same key, a thread has then read back the payload
\* another thread stored over its own, and that other thread is at the lock
\* again for its next operation
CacheSerializedWitness ==
    \E k \in CacheKeys :
        /\ \A t \in Threads : thr[t].setAt[k] >= 0
        /\ \E t, u \in Threads :
              /\ thr[t].last.mustHit
              /\ thr[t].last.ret = Some(ThreadPayload(u))
              /\ u # t
              /\ thr[u].pc = "wait"

(***************************************************************************)
(* Properties of the volume existence check (SpecVolume).                  *)
(***************************************************************************)
\* C19: _check_volume_exists returns False for the id "unknown" without any
\* describe_volumes call; otherwise it returns True when the lookup ended by
\* succeeding, returns False and raises nothing when the lookup ended with
\* InvalidVolume.NotFound, and raises the error the lookup ended with in
\* every other case.
VolumeExistsContract ==
    exists.status = "done" =>
        LET n == Len(retry.outs)
        IN  IF volumeId = "unknown"
            THEN n = 0 /\ exists.raised = "none" /\ exists.value = FALSE
            ELSE /\ n >= 1
                 /\ retry.outs[n] = "ok" =>
                       exists.raised = "none" /\ exists.value = TRUE
                 /\ retry.outs[n] = "InvalidVolume.NotFound" =>
                       exists.raised = "none" /\ exists.value = FALSE
                 /\ retry.outs[n] \notin {"ok", "InvalidVolume.NotFound"} =>
                       exists.raised = retry.outs[n]

\* the lookup was throttled once and then answered that the volume is not
\* found: the check returned False
VolumeNotFoundWitness ==
    /\ exists.status = "done"
    /\ volumeId # "unknown"
    /\ retry.outs = <<"Throttling", "InvalidVolume.NotFound">>
    /\ exists.raised = "none" /\ exists.value = FALSE

(***************************************************************************)
(* Properties of the access key scan (SpecIam).                            *)
(***************************************************************************)
\* the key at place j of the user at place i is to be reported: the keys of
\* the user could be listed, the last use of the key could be resolved, and
\* the key is unused for days_threshold days or more
Reportable(i, j) ==
    LET key == listing[i].keys[j]
    IN  /\ listing[i].list_keys = "ok"
        /\ key.last_used = "ok"
        /\ (IF key.last_used_days.present THEN key.last_used_days.data
            ELSE key.create_days) >= scanner.threshold

KeyPlaces == {p \in (1..MaxUsers) \X (1..MaxKeys) :
                 p[1] <= Len(listing) /\ p[2] <= Len(listing[p[1]].keys)}

\* C20: when list_users succeeded, the scan raises nothing and reports, once
\* each, exactly the keys that are unused beyond the threshold, whose
\* last-use lookup succeeded and whose user's key listing succeeded: a failed
\* key listing drops the keys of that user only and a failed last-use lookup
\* drops that key only; when list_users failed with a ClientError the scan
\* returns the empty list.
IamSkipsFailedItemsOnly ==
    (lastCall.made /\ ~lastCall.hit) =>
        LET n == Len(lastCall.outs)
        IN  /\ lastCall.outs[n] = "ok" =>
                /\ lastCall.raised = "none"
                /\ \A p \in KeyPlaces :
                      Reportable(p[1], p[2]) <=>
                          \E m \in 1..Len(lastCall.ret) :
                              /\ lastCall.ret[m].username = listing[p[1]].UserName
                              /\ lastCall.ret[m].access_key_id =
                                     listing[p[1]].keys[p[2]].AccessKeyId
                /\ Len(lastCall.ret) =
                      Cardinality({p \in KeyPlaces : Reportable(p[1], p[2])})
            /\ lastCall.outs[n] \in ClientErrorCodes =>
                lastCall.ret = <<>> /\ lastCall.raised = "none"

\* the key listing of the first user failed and the second user's was read;
\* the last-use lookup of that user's first key failed and the second key was
\* reported
IamSkipWitness ==
    /\ lastCall.made /\ lastCall.outs = <<"ok">>
    /\ Len(listing) = 2
    /\ listing[1].list_keys = "AccessDenied" /\ Len(listing[1].keys) > 0
    /\ listing[2].list_keys = "ok" /\ Len(listing[2].keys) = 2
    /\ listing[2].keys[1].last_used = "Throttling"
    /\ Len(lastCall.ret) = 1
    /\ lastCall.ret[1].access_key_id = listing[2].keys[2].AccessKeyId

(***************************************************************************)
(* Properties of the bucket scan (SpecS3).                                 *)
(***************************************************************************)
\* the scan call went to the remote and list_buckets succeeded
BucketsListed ==
    /\ lastCall.made /\ ~lastCall.hit
    /\ lastCall.outs[Len(lastCall.outs)] = "ok"

\* the bucket at place i is in the list the scan returned
Flagged(i) ==
    \E m \in 1..Len(lastCall.ret) : lastCall.ret[m].bucket_name = listing[i].Name

\* the entry of the bucket at place i in the list the scan returned
FlaggedAs(i) ==
    lastCall.ret[CHOOSE m \in 1..Len(lastCall.ret) :
                     lastCall.ret[m].bucket_name = listing[i].Name]

\* the bucket at place i was found empty: its probe answered, with no object
FoundEmpty(i) == listing[i].probe = "ok" /\ ~listing[i].has_contents

\* C21: a bucket whose probe fails with a remote error is not flagged, and
\* the scan raises nothing and goes on to judge the other buckets.
S3ProbeFailureNotFlagged ==
    BucketsListed =>
        /\ lastCall.raised = "none"
        /\ \A i \in 1..Len(listing) :
              listing[i].probe # "ok" => ~Flagged(i)

\* what holds of a bucket whose probe fails: the scan raises nothing, the
\* bucket is taken for not empty and flagged on its age alone, and the
\* buckets whose probe answers are flagged when empty
S3ProbeFailureNotEmpty ==
    BucketsListed =>
        /\ lastCall.raised = "none"
        /\ \A i \in 1..Len(listing) :
              /\ listing[i].probe # "ok" =>
                    /\ Flagged(i) <=> listing[i].age_days > 90
                    /\ Flagged(i) => ~FlaggedAs(i).is_empty
              /\ FoundEmpty(i) => Flagged(i)

\* C22: a bucket is flagged if and only if it is empty or its age in whole
\* days is 90 or more.
S3FlagsEmptyOrAged90 ==
    BucketsListed =>
        \A i \in 1..Len(listing) :
            Flagged(i) <=> (FoundEmpty(i) \/ listing[i].age_days >= 90)

\* what the scan does: a bucket is flagged if and only if it is empty or its
\* age in whole days is more than 90
S3FlagsEmptyOrOver90 ==
    BucketsListed =>
        \A i \in 1..Len(listing) :
            Flagged(i) <=> (FoundEmpty(i) \/ listing[i].age_days > 90)

(***************************************************************************)
(* Properties of the recommendation tiers (SpecTiers).                     *)
(***************************************************************************)
\* the strongest tier of the scanner constructed
StrongestTier == IF scanner.kind = "stopped_instances" THEN "TERMINATE" ELSE "DELETE"

\* the scan call reported the resource of the listing
Reported == lastCall.made /\ Len(lastCall.ret) = 1

\* C23: a stopped instance or unattached volume of age > 30 days gets the
\* strongest tier, of age 7 to 30 days inclusive REVIEW, of age < 7 MONITOR.
TiersReviewFrom7 ==
    Reported =>
        LET age == listing[1].age_days
            rec == lastCall.ret[1].recommendation
        IN  /\ age > 30 => rec = StrongestTier
            /\ (7 <= age /\ age <= 30) => rec = "REVIEW"
            /\ age < 7 => rec = "MONITOR"

\* what the scans do: age > 30 gets the strongest tier, age 8 to 30 REVIEW,
\* age 7 or less MONITOR
TiersReviewAbove7 ==
    Reported =>
        LET age == listing[1].age_days
            rec == lastCall.ret[1].recommendation
        IN  /\ age > 30 => rec = StrongestTier
            /\ (7 < age /\ age <= 30) => rec = "REVIEW"
            /\ age <= 7 => rec = "MONITOR"

(***************************************************************************)
(* Properties of the snapshot scan (SpecSnapshots).                        *)
(***************************************************************************)
\* the scan call went to the remote, describe_snapshots succeeded and the
\* scan did not fail
SnapshotsScanned ==
    /\ lastCall.made /\ ~lastCall.hit
    /\ lastCall.outs[Len(lastCall.outs)] = "ok"
    /\ ~lastCall.soft /\ lastCall.raised = "none"

\* the places in the returned list of the snapshot at place i of the account
ReportedAt(i) ==
    {m \in 1..Len(lastCall.ret) : lastCall.ret[m].snapshot_id = listing[i].SnapshotId}

\* the source volume of the snapshot at place i exists
SourceVolumeExists(i) == listing[i].VolumeId # "unknown" /\ listing[i].lookup = "ok"

\* C24: a snapshot is reported, once, if and only if its age in whole days is
\* at least the threshold of the call; a reported snapshot is recommended
\* DELETE as orphaned when older than 180 days with no source volume, REVIEW
\* when older than 180 days with its source volume, MONITOR otherwise.
SnapshotsReportedAndTiered ==
    SnapshotsScanned =>
        \A i \in 1..Len(listing) :
            /\ Cardinality(ReportedAt(i)) =
                  (IF listing[i].age_days >= scanner.threshold THEN 1 ELSE 0)
            /\ \A m \in ReportedAt(i) :
                  /\ lastCall.ret[m].volume_exists = SourceVolumeExists(i)
                  /\ lastCall.ret[m].recommendation =
                        (IF listing[i].age_days > 180 /\ ~SourceVolumeExists(i)
                         THEN "DELETE - Orphaned"
                         ELSE IF listing[i].age_days > 180 THEN "REVIEW"
                         ELSE "MONITOR")

\* with the default threshold: an orphaned snapshot of 181 days is reported
\* for deletion next to an orphaned snapshot of exactly 90 days to monitor
SnapshotsTieredWitness ==
    /\ SnapshotsScanned /\ scanner.threshold = 90
    /\ Len(listing) = 2 /\ Len(lastCall.ret) = 2
    /\ listing[1].age_days = 181 /\ listing[1].lookup = "InvalidVolume.NotFound"
    /\ listing[1].VolumeId # "unknown"
    /\ lastCall.ret[1].recommendation = "DELETE - Orphaned"
    /\ listing[2].age_days = 90 /\ ~SourceVolumeExists(2)
    /\ lastCall.ret[2].recommendation = "MONITOR"

(***************************************************************************)
(* Properties of the instance storage cost (SpecEbsCost).                  *)
(***************************************************************************)
\* the block device mappings of the one instance of the account
Mappings == listing[1].BlockDeviceMappings

\* what the mapping at place i is to contribute, in cents: rate times size
\* for an attached volume whose lookup succeeds, nothing otherwise
Contribution(i) ==
    IF Mappings[i].Ebs /\ Mappings[i].load = "ok"
    THEN (IF Mappings[i].volume_type = "gp3" THEN 8 ELSE 10) * Mappings[i].size
    ELSE 0

RECURSIVE ContributionsUpTo(_)
ContributionsUpTo(n) ==
    IF n = 0 THEN 0 ELSE ContributionsUpTo(n - 1) + Contribution(n)

\* the instance scan went to the remote, describe_instances succeeded and
\* no volume lookup failed with anything but a remote error
InstancesListed ==
    /\ lastCall.made /\ ~lastCall.hit
    /\ lastCall.outs = <<"ok">>
    /\ \A i \in 1..Len(Mappings) :
          Mappings[i].Ebs => Mappings[i].load \in {"ok"} \cup ClientErrorCodes

\* C25: the instance is reported whatever its volume lookups do, with a
\* storage cost that is the sum over its attached volumes whose lookup
\* succeeds of rate times size (8 cents a GB for gp3, 10 cents for any other
\* type): a failed lookup contributes nothing and leaves the contributions
\* of the other volumes as they are; 50 GB of gp2 and 30 GB of gp3 cost 7.40.
EbsCostSumsSucceededLookups ==
    InstancesListed =>
        /\ ~lastCall.soft /\ lastCall.raised = "none"
        /\ Len(lastCall.ret) = 1
        /\ lastCall.ret[1].instance_id = listing[1].InstanceId
        /\ lastCall.ret[1].ebs_monthly_cost = ContributionsUpTo(Len(Mappings))
        /\ ({[volume_type |-> Mappings[i].volume_type, size |-> Mappings[i].size] :
               i \in {j \in 1..Len(Mappings) : Mappings[j].Ebs /\ Mappings[j].load = "ok"}}
             = {[volume_type |-> "gp2", size |-> 50], [volume_type |-> "gp3", size |-> 30]}
            /\ Cardinality({j \in 1..Len(Mappings) :
                              Mappings[j].Ebs /\ Mappings[j].load = "ok"}) = 2
            => lastCall.ret[1].ebs_monthly_cost = 740)

\* 50 GB of gp2, a volume whose lookup is denied, 30 GB of gp3: the instance
\* is reported with a cost of 7.40
EbsCostFailedSiblingWitness ==
    /\ InstancesListed
    /\ Len(Mappings) = 3
    /\ Mappings[1].Ebs /\ Mappings[1].volume_type = "gp2" /\ Mappings[1].size = 50
    /\ Mappings[1].load = "ok"
    /\ Mappings[2].Ebs /\ Mappings[2].load = "AccessDenied"
    /\ Mappings[3].Ebs /\ Mappings[3].volume_type = "gp3" /\ Mappings[3].size = 30
    /\ Mappings[3].load = "ok"
    /\ Len(lastCall.ret) = 1 /\ lastCall.ret[1].ebs_monthly_cost = 740

(***************************************************************************)
(* Properties of the cost aggregation (SpecBilling).                       *)
(***************************************************************************)
\* the invocations of the billing API that calculate_total_waste made
BillingCalls == 1..report.calls

\* the report of the same scan results when every billing call succeeds
ReportWhenBillingSucceeds ==
    CalculateTotalWaste(scanResults, [i \in 1..3 |-> "ok"], billing.service_costs)

\* the report is complete, nothing was raised, and its estimated waste and
\* resource counts are those of a run whose billing calls succeed
ReportKeepsEstimates ==
    /\ report.raised = "none"
    /\ report.estimated_waste = ReportWhenBillingSucceeds.estimated_waste
    /\ report.resource_counts = ReportWhenBillingSucceeds.resource_counts
    /\ report.savings_potential.monthly = ReportWhenBillingSucceeds.savings_potential.monthly
    /\ report.savings_potential.annual = ReportWhenBillingSucceeds.savings_potential.annual

ActualsAllZero ==
    /\ report.actual_costs = [ec2_monthly |-> 0, ebs_monthly |-> 0, total_monthly |-> 0]
    /\ report.savings_potential.percentage_of_bill = 0

\* C26: when a billing API call fails during the aggregation, the report is
\* returned without an exception, every actual-cost figure in it is zero,
\* the percentage of the bill is 0, and the estimated waste and the resource
\* counts are those of a run whose billing calls succeed.
BillingFailureZeroesActuals ==
    (report.made /\ \E i \in BillingCalls : billing.outs[i] # "ok") =>
        ReportKeepsEstimates /\ ActualsAllZero

\* the same when every billing call made fails, or one fails with an
\* exception that is not a ClientError
BillingOutageZeroesActuals ==
    (report.made /\ (\/ \A i \in BillingCalls : billing.outs[i] # "ok"
                     \/ \E i \in BillingCalls : billing.outs[i] = "Exception")) =>
        ReportKeepsEstimates /\ ActualsAllZero

\* whatever the billing calls do, nothing is raised, the estimates are kept,
\* a figure whose own billing call failed is zero, and the percentage is 0
\* when the total is
BillingFailureZeroesItsFigure ==
    report.made =>
        /\ ReportKeepsEstimates
        /\ billing.outs[1] # "ok" => report.actual_costs.ec2_monthly = 0
        /\ (report.calls >= 2 /\ billing.outs[2] # "ok") => report.actual_costs.ebs_monthly = 0
        /\ (report.calls >= 3 /\ billing.outs[3] # "ok") =>
              /\ report.actual_costs.total_monthly = 0
        /\ report.actual_costs.total_monthly = 0 =>
              report.savings_potential.percentage_of_bill = 0

(***************************************************************************)
(* Properties of concurrent scans of one fingerprint (SpecScanThreads).    *)
(***************************************************************************)
\* every thread's scan has returned, all within the TTL of the first
\* activity, and no remote call failed
ScansDoneInWindow ==
    /\ \A t \in Threads : thr[t].pc = "done"
    /\ now < CacheTtl
    /\ \A i \in 1..Len(ops) : ops[i].outs = <<"ok">>

\* C27: however the scans of the threads interleave, the remote list call is
\* made exactly once in total.
ConcurrentScansListOnce ==
    (thr # <<>> /\ ScansDoneInWindow) => Len(ops) = 1

\* a scan called after another scan of the fingerprint has returned its
\* remote result, less than the TTL after that result was cached, is a cache
\* hit and makes no remote call
LaterScanHits ==
    thr # <<>> =>
        \A t, u \in Threads :
            (/\ thr[t].pc = "done" /\ u \in thr[t].called
             /\ thr[u].setAt >= 0 /\ thr[t].getAt - thr[u].setAt < CacheTtl)
            => /\ thr[t].hit
               /\ \A i \in 1..Len(ops) : ops[i].thread # t

\* the scans make at least one remote list call and at most one each
ConcurrentScansListAtMostOnceEach ==
    (thr # <<>> /\ \A t \in Threads : thr[t].pc = "done") =>
        /\ Len(ops) >= 1
        /\ \A i, j \in 1..Len(ops) : ops[i].thread = ops[j].thread => i = j

(***************************************************************************)
(* Soft failures and the cache (SpecScan).                                 *)
(***************************************************************************)
\* a scan call that fails soft returns [] and creates or changes no cache
\* entry; an entry is created or changed only by a scan call with
\* use_cache=true that fetched from the remote and did not fail; and the scan
\* call with use_cache=true that follows a soft failure of a scan with
\* use_cache=true is no cache hit and makes the remote list call
SoftFailStep ==
    /\ (lastCall' # lastCall /\ lastCall'.soft) =>
          /\ lastCall'.ret = <<>>
          /\ \A k \in DOMAIN cache' : k \in DOMAIN cache /\ cache'[k] = cache[k]
    /\ (\E k \in DOMAIN cache' : k \notin DOMAIN cache \/ cache'[k] # cache[k]) =>
          /\ lastCall'.use_cache /\ ~lastCall'.hit /\ ~lastCall'.soft
          /\ lastCall'.raised = "none"
          /\ lastCall'.outs # <<>> /\ lastCall'.outs[Len(lastCall'.outs)] = "ok"
    /\ (lastCall.made /\ lastCall.soft /\ lastCall.use_cache
          /\ lastCall' # lastCall /\ lastCall'.use_cache) =>
          /\ ~lastCall'.hit
          /\ lastCall'.outs # <<>>

\* C28: a cache entry is created only by a successful scan: a scan that
\* fails soft writes nothing to the cache, and the next scan of the
\* fingerprint with use_cache=true makes the remote list call again instead
\* of returning a cached empty list.
SoftFailureNotCached == [][SoftFailStep]_vars

\* a scan with use_cache=true over a store that is not empty failed soft
\* after its retries and left the cache empty
SoftFailureNotCachedWitness ==
    /\ lastCall.made /\ lastCall.use_cache /\ lastCall.soft
    /\ scanner.kind = "unattached_volumes" /\ listing # <<>>
    /\ lastCall.outs = <<"Throttling", "Throttling", "Throttling">>
    /\ lastCall.ret = <<>>
    /\ cache = EmptyCache

(***************************************************************************)
(* Exceptions that are no ClientError (SpecRegions).                       *)
(***************************************************************************)
\* the last scan call of region r met an exception that is no ClientError,
\* from its list call or from the remote call made for an item
MetOtherException(r) ==
    \/ \E i \in 1..Len(task[r].outs) :
          task[r].outs[i] \notin {"ok"} \cup ClientErrorCodes
    \/ task[r].item \notin {"none", "ok"} \cup ClientErrorCodes

\* the cache holds an entry of the scan of `kind` in region r
CachedFor(r, kind) ==
    \E key \in DOMAIN cache : key[1] = r /\ key[3] = kind

\* C29: a scan call that meets an exception that is no ClientError, from its
\* list call or while processing an item, invokes the list call once (no
\* retry), does not return (no soft failure) but raises the exception out of
\* the scan call and out of the region task, caches nothing, and
\* scan_all_regions catches it and stores the region's dict of four empty
\* lists with the 'error' entry.
OtherExceptionPropagates ==
    \A r \in RegionSet :
        (task[r].scanned # <<>> /\ task[r].active = {} /\ MetOtherException(r)) =>
            /\ Len(task[r].outs) = 1
            /\ task[r].state = "done" /\ task[r].outcome = "raised"
            /\ task[r].exc = (IF task[r].item = "none" THEN task[r].outs[1]
                              ELSE task[r].item)
            /\ Len(task[r].lists) = Len(task[r].scanned) - 1
            /\ ~CachedFor(r, task[r].scanned[Len(task[r].scanned)])
            /\ mpc # "raised"
            /\ task[r].collected =>
                  /\ r \in DOMAIN results
                  /\ results[r] = [stopped_instances |-> <<>>,
                                   unattached_volumes |-> <<>>,
                                   old_snapshots |-> <<>>,
                                   unassociated_eips |-> <<>>,
                                   error |-> task[r].exc]

\* returned, with a region whose volume scan got the exception from its list
\* call, invoked once, and a region whose snapshot scan got it from the
\* lookup of a snapshot's volume; both have the error-marked empty dict
OtherExceptionWitness ==
    /\ mpc = "returned"
    /\ \E r \in RegionSet :
          /\ task[r].outcome = "raised"
          /\ task[r].scanned = SubSeq(ResourceKinds, 1, 2)
          /\ task[r].outs = <<"Exception">>
          /\ results[r].error = "Exception"
          /\ results[r].stopped_instances = <<>>
          /\ ~CachedFor(r, "unattached_volumes") /\ CachedFor(r, "stopped_instances")
    /\ \E r \in RegionSet :
          /\ task[r].outcome = "raised"
          /\ task[r].scanned = SubSeq(ResourceKinds, 1, 3)
          /\ task[r].outs = <<"ok">> /\ task[r].item = "Exception"
          /\ results[r].error = "Exception"
          /\ ~CachedFor(r, "old_snapshots")

(***************************************************************************)
(* A failed volume lookup in the snapshot scan (SpecSnapshots).            *)
(***************************************************************************)
\* the lookup of the source volume of the snapshot at place i is made and
\* fails, after the retries of a transient code, with a ClientError other
\* than 'volume not found'
VolumeLookupFails(i) ==
    /\ listing[i].age_days >= scanner.threshold
    /\ listing[i].VolumeId # "unknown"
    /\ listing[i].lookup \in ClientErrorCodes \ {"InvalidVolume.NotFound"}

\* the first such snapshot of the account
FirstFailing ==
    CHOOSE i \in 1..Len(listing) :
        VolumeLookupFails(i) /\ \A j \in 1..(i - 1) : ~VolumeLookupFails(j)

\* C30: when the scan went to the remote, listed the snapshots, and the
\* volume lookup of some snapshot fails with a ClientError other than
\* 'volume not found', the scan returns the empty list without raising: the
\* snapshots kept before the first failing one are dropped, the loop ends at
\* it with its error, and no cache entry is created or changed.
SnapshotLookupFailureEmptiesScan ==
    (/\ lastCall.made /\ ~lastCall.hit
     /\ lastCall.outs # <<>> /\ lastCall.outs[Len(lastCall.outs)] = "ok"
     /\ \E i \in 1..Len(listing) : VolumeLookupFails(i)) =>
        /\ lastCall.ret = <<>> /\ lastCall.soft /\ lastCall.raised = "none"
        /\ \A k \in DOMAIN lastCall.post :
              k \in DOMAIN lastCall.pre /\ lastCall.post[k] = lastCall.pre[k]
        /\ cache = lastCall.post
        /\ LET p == Collect([i \in 1..Len(listing) |->
                               ProcessSnapshots(listing[i], scanner.threshold)])
           IN  /\ p.raised = listing[FirstFailing].lookup
               /\ Len(p.out) =
                     Cardinality({j \in 1..(FirstFailing - 1) :
                                    listing[j].age_days >= scanner.threshold})

\* a snapshot of 181 days whose volume exists, then one whose volume lookup
\* is throttled on every attempt: the scan with use_cache=true returned the
\* empty list and the cache stayed empty
SnapshotLookupFailureWitness ==
    /\ lastCall.made /\ lastCall.use_cache /\ ~lastCall.hit
    /\ lastCall.outs = <<"ok">>
    /\ Len(listing) = 2
    /\ listing[1].age_days = 181 /\ SourceVolumeExists(1)
    /\ VolumeLookupFails(2) /\ listing[2].lookup = "Throttling"
    /\ lastCall.ret = <<>> /\ lastCall.soft
    /\ cache = EmptyCache

====
